---------------------------- MODULE Spec2Model ----------------------------
(***************************************************************************)
(* A model of GoFAT, a read-only FAT16/FAT32 driver: the sector source     *)
(* (fetch), the FAT chain walk (getFatEntry), the range read over a        *)
(* cluster chain (readFileAt), the directory decoder (parseDir), the path  *)
(* resolver (Open) and the file handle (Read, ReadAt, Seek, Readdir,       *)
(* Readdirnames).                                                          *)
(*                                                                         *)
(* The volume is scaled down: a sector holds BytesPerSector = 2 bytes      *)
(* (one FAT16 entry), a cluster SectorsPerCluster sectors, and the data    *)
(* area the clusters 2..MaxCluster.  The byte of the source at absolute    *)
(* position p of the data area is the number p, so that every byte of a    *)
(* file names the place it was read from.                                  *)
(***************************************************************************)
EXTENDS Integers, Sequences, FiniteSets, TLC

VARIABLES
    fat,          \* the first FAT: cluster -> raw 16-bit entry
    bad,          \* the sectors the byte source fails to read
    sectorCache,  \* Fs.sectorCache
    file,         \* the directory entry of the file at hand: firstCluster, size
    call,         \* the last readFileAt call: its arguments and its result
    handle,       \* the File handle
    ret,          \* what the last operation on the handle returned
    dir,          \* the directory data handed to parseDir, slot by slot
    listing,      \* what parseDir returned for dir
    slots,        \* the directory slots on the source: position -> slot
    fs            \* Fs.lock, the reader's position, Fs.info.BytesPerSector

vars == <<fat, bad, sectorCache, file, call, handle, ret, dir, listing, slots, fs>>

(***************************** bounds **************************************)
MaxCluster == 3
SectorsPerCluster == 2

(***************************** geometry ************************************)
BytesPerSector == 2
ReservedSectorCount == 1
FatCount == 1
\* f.info.FSType
FSType == fs.FSType

RootEntryCount == 4
\* A directory slot, 32 bytes of a 512-byte sector, is one byte of the scaled
\* sector.
DirEntrySize == 1

FatSize == ((MaxCluster + 1) * 2 + (BytesPerSector - 1)) \div BytesPerSector
RootDirSectors ==
    ((RootEntryCount * DirEntrySize) + (BytesPerSector - 1)) \div BytesPerSector
FirstRootSector == ReservedSectorCount + FatCount * FatSize
FirstDataSector == ReservedSectorCount + FatCount * FatSize + RootDirSectors
ClusterSize == SectorsPerCluster * BytesPerSector
Clusters == 2..MaxCluster
TotalSectorCount == FirstDataSector + (MaxCluster - 1) * SectorsPerCluster

Min(a, b) == IF a < b THEN a ELSE b
Max(a, b) == IF a > b THEN a ELSE b

(***************************** errors **************************************)
\* An error is the chain of its kinds, outermost first; Nil is no error.
\* errors.Is(err, kind) holds when the kind is anywhere in the chain, since a
\* checkpoint answers Is for its own err and unwraps to prev.
Nil == << >>
EOF == <<"io.EOF">>
ErrUnexpectedEOF == <<"io.ErrUnexpectedEOF">>
Is(err, kind) == \E i \in 1..Len(err) : err[i] = kind

Wrap(prev, err) ==
    IF prev = EOF THEN EOF
    ELSE IF prev = Nil THEN Nil
    ELSE <<err>> \o prev

(***************************** fatEntry ************************************)
Low28 == 268435456
\* (a test of the whole entry, the upper four bits included)
IsFreeUnmasked(e) == e = 0
IsFree(e) == (e % Low28) = 0
IsReservedTemp(e) == (e % Low28) = 1
IsNextCluster(e) == (e % Low28) >= 2 /\ (e % Low28) <= 268435439
IsReservedSometimes(e) == (e % Low28) >= 268435440 /\ (e % Low28) <= 268435445
IsReserved(e) == (e % Low28) = 268435446
IsBad(e) == (e % Low28) = 268435447
IsEOF(e) == (e % Low28) >= 268435448 /\ (e % Low28) <= 268435455
ReadAsNextCluster(e) ==
    IsNextCluster(e) \/ IsReservedSometimes(e) \/ IsReserved(e) \/ IsBad(e)
ReadAsEOF(e) == IsEOF(e) \/ IsReservedTemp(e)

RECURSIVE BitOr(_, _)
BitOr(a, b) ==
    IF a = 0 THEN b
    ELSE IF b = 0 THEN a
    ELSE Max(a % 2, b % 2) + 2 * BitOr(a \div 2, b \div 2)

(***************************** byte source *********************************)
\* The byte at absolute position p: in the FAT area the little-endian bytes of
\* the 16-bit entries, elsewhere the position itself.
SourceByte(p) ==
    LET fatStart == ReservedSectorCount * BytesPerSector
        fatEnd == fatStart + (MaxCluster + 1) * 2
    IN  IF p >= fatStart /\ p < fatEnd
        THEN LET e == fat[(p - fatStart) \div 2]
             IN  IF (p - fatStart) % 2 = 0 THEN e % 256 ELSE e \div 256
        ELSE p
SourceRead(sectorNum) ==
    [j \in 1..BytesPerSector |-> SourceByte(sectorNum * BytesPerSector + j - 1)]
\* The error of seeking to and reading a sector: an I/O error on the bad
\* sector, io.EOF from a read at or after the end of the source.
SourceErr(sectorNum) ==
    IF sectorNum \in bad THEN <<"EIO">>
    ELSE IF sectorNum >= TotalSectorCount THEN EOF
    ELSE Nil

(***************************** fetch ***************************************)
EmptySector == [current |-> 0, buffer |-> << >>]
fetchUncached(cache, sectorNum) ==
    IF SourceErr(sectorNum) # Nil
    THEN [sector |-> EmptySector,
          err |-> Wrap(SourceErr(sectorNum), "ErrFetchingSector"),
          cache |-> cache]
    ELSE LET s == [current |-> sectorNum, buffer |-> SourceRead(sectorNum)]
         IN  [sector |-> s, err |-> Nil, cache |-> s]
fetchLowBit(cache, sectorNum) ==
    IF sectorNum % 2 = cache.current % 2
    THEN [sector |-> cache, err |-> Nil, cache |-> cache]
    ELSE fetchUncached(cache, sectorNum)
fetch(cache, sectorNum) ==
    IF sectorNum = cache.current
    THEN [sector |-> cache, err |-> Nil, cache |-> cache]
    ELSE fetchUncached(cache, sectorNum)

(***************************** getFatEntry *********************************)
\* (the entry as stored, the FAT16 special values not converted)
fatEntryOfStored(f, fatEntryOffset) ==
    IF f.err # Nil
    THEN [entry |-> 0, err |-> Wrap(f.err, "ErrReadFat"), cache |-> f.cache]
    ELSE IF FSType = "FAT16"
    THEN [entry |-> f.sector.buffer[fatEntryOffset + 1]
                    + 256 * f.sector.buffer[fatEntryOffset + 2],
          err |-> Nil, cache |-> f.cache]
    ELSE [entry |-> (f.sector.buffer[fatEntryOffset + 1]
                     + 256 * f.sector.buffer[fatEntryOffset + 2]
                     + 65536 * f.sector.buffer[fatEntryOffset + 3]
                     + 16777216 * (f.sector.buffer[fatEntryOffset + 4] % 16))
                    % Low28,
          err |-> Nil, cache |-> f.cache]
\* The entry decoded from the fetched FAT sector f at fatEntryOffset.
fatEntryOf(f, fatEntryOffset) ==
    IF f.err # Nil
    THEN [entry |-> 0, err |-> Wrap(f.err, "ErrReadFat"), cache |-> f.cache]
    ELSE IF FSType = "FAT16"
    THEN [entry |->
              IF f.sector.buffer[fatEntryOffset + 1]
                 + 256 * f.sector.buffer[fatEntryOffset + 2] >= 65520
              THEN BitOr(f.sector.buffer[fatEntryOffset + 1]
                         + 256 * f.sector.buffer[fatEntryOffset + 2], 268431360)
              ELSE f.sector.buffer[fatEntryOffset + 1]
                   + 256 * f.sector.buffer[fatEntryOffset + 2],
          err |-> Nil, cache |-> f.cache]
    ELSE [entry |-> (f.sector.buffer[fatEntryOffset + 1]
                     + 256 * f.sector.buffer[fatEntryOffset + 2]
                     + 65536 * f.sector.buffer[fatEntryOffset + 3]
                     + 16777216 * (f.sector.buffer[fatEntryOffset + 4] % 16))
                    % Low28,
          err |-> Nil, cache |-> f.cache]
fatOffsetOf(cluster) == IF FSType = "FAT16" THEN cluster * 2 ELSE cluster * 4
getFatEntry(cache, cluster) ==
    fatEntryOf(fetch(cache, ReservedSectorCount
                            + (fatOffsetOf(cluster) \div BytesPerSector)),
               fatOffsetOf(cluster) % BytesPerSector)

(***************************** readFileAt **********************************)
Prefix(s, n) == SubSeq(s, 1, n)

\* finalize: the data sliced to readSize, to fileSize, or as it is.
\* (finalize reporting io.EOF without shortening readSize)
finalizeKeepReadSize(result, err, fileSize0, offset, readSize) ==
    LET fileSize == IF fileSize0 < 0 THEN Len(result) + offset ELSE fileSize0
        err1 == IF err = Nil /\ readSize > fileSize - offset THEN EOF ELSE err
    IN  IF readSize > 0 /\ Len(result) > readSize
        THEN [data |-> Prefix(result, readSize),
              err |-> Wrap(err1, "ErrReadFilesystemFile")]
        ELSE IF Len(result) > fileSize
        THEN [data |-> Prefix(result, fileSize),
              err |-> Wrap(err1, "ErrReadFilesystemFile")]
        ELSE [data |-> result, err |-> Wrap(err1, "ErrReadFilesystemFile")]
\* (finalize cutting to readSize only, never to fileSize)
finalizeNoFileSizeCut(result, err, fileSize0, offset, readSize0) ==
    LET fileSize == IF fileSize0 < 0 THEN Len(result) + offset ELSE fileSize0
        eof == err = Nil /\ readSize0 > fileSize - offset
        err1 == IF eof THEN EOF ELSE err
        readSize == IF eof THEN fileSize - offset ELSE readSize0
        err2 == IF err1 = Nil /\ Len(result) < fileSize - offset
                   /\ Len(result) < readSize
                THEN ErrUnexpectedEOF ELSE err1
    IN  IF readSize > 0 /\ Len(result) > readSize
        THEN [data |-> Prefix(result, readSize),
              err |-> Wrap(err2, "ErrReadFilesystemFile")]
        ELSE [data |-> result, err |-> Wrap(err2, "ErrReadFilesystemFile")]
finalize(result, err, fileSize0, offset, readSize0) ==
    LET fileSize == IF fileSize0 < 0 THEN Len(result) + offset ELSE fileSize0
        eof == err = Nil /\ readSize0 > fileSize - offset
        err1 == IF eof THEN EOF ELSE err
        readSize == IF eof THEN fileSize - offset ELSE readSize0
        err2 == IF err1 = Nil /\ Len(result) < fileSize - offset
                   /\ Len(result) < readSize
                THEN ErrUnexpectedEOF ELSE err1
    IN  IF readSize > 0 /\ Len(result) > readSize
        THEN [data |-> Prefix(result, readSize),
              err |-> Wrap(err2, "ErrReadFilesystemFile")]
        ELSE IF Len(result) > fileSize
        THEN [data |-> Prefix(result, fileSize),
              err |-> Wrap(err2, "ErrReadFilesystemFile")]
        ELSE [data |-> result, err |-> Wrap(err2, "ErrReadFilesystemFile")]

\* The first loop: find the cluster to start at.
RECURSIVE findStartCluster(_, _, _, _)
\* (a first loop that ends at a failed FAT read with no error)
findStartNextNoError(n, currentCluster, clusterNumber, offset) ==
    IF n.err # Nil \/ ~ReadAsNextCluster(n.entry)
    THEN [kind |-> "return", cluster |-> currentCluster,
          number |-> clusterNumber, err |-> Nil, cache |-> n.cache]
    ELSE findStartCluster(n.cache, n.entry, clusterNumber + 1, offset)
findStartNext(n, currentCluster, clusterNumber, offset) ==
    IF n.err # Nil
    THEN [kind |-> "return", cluster |-> currentCluster,
          number |-> clusterNumber, err |-> n.err, cache |-> n.cache]
    ELSE IF ~ReadAsNextCluster(n.entry)
    THEN [kind |-> "return", cluster |-> currentCluster,
          number |-> clusterNumber, err |-> Nil, cache |-> n.cache]
    ELSE findStartCluster(n.cache, n.entry, clusterNumber + 1, offset)
findStartCluster(cache, currentCluster, clusterNumber, offset) ==
    IF clusterNumber * ClusterSize <= offset
       /\ (clusterNumber + 1) * ClusterSize >= offset
    THEN [kind |-> "found", cluster |-> currentCluster,
          number |-> clusterNumber, err |-> Nil, cache |-> cache]
    ELSE findStartNext(getFatEntry(cache, currentCluster), currentCluster,
                       clusterNumber, offset)

\* The sectors i.. of one cluster, appended to data.
RECURSIVE readSectors(_, _, _, _, _)
readSectorsFetched(f, data, firstSectorOfCluster, i, offsetRest) ==
    IF f.err # Nil
    THEN [data |-> data, err |-> f.err, cache |-> f.cache]
    ELSE IF Len(data) = 0
    THEN readSectors(f.cache,
             SubSeq(f.sector.buffer, offsetRest + 1, Len(f.sector.buffer)),
             firstSectorOfCluster, i + 1, offsetRest)
    ELSE readSectors(f.cache, data \o f.sector.buffer,
             firstSectorOfCluster, i + 1, offsetRest)
readSectors(cache, data, firstSectorOfCluster, i, offsetRest) ==
    IF i >= SectorsPerCluster
    THEN [data |-> data, err |-> Nil, cache |-> cache]
    ELSE readSectorsFetched(fetch(cache, firstSectorOfCluster + i), data,
                            firstSectorOfCluster, i, offsetRest)

\* The second loop: read the clusters.
withCache(r, cache) == [data |-> r.data, err |-> r.err, cache |-> cache]
RECURSIVE readClusters(_, _, _, _, _, _, _, _, _)
readClustersNext(n, data, clusterNumber, offsetRest, fileSize, offset, readSize) ==
    IF n.err # Nil
    THEN withCache(finalize(data, n.err, fileSize, offset, readSize), n.cache)
    ELSE IF ~ReadAsNextCluster(n.entry)
    THEN withCache(finalize(data,
                            IF Len(data) < fileSize - offset
                            THEN ErrUnexpectedEOF ELSE Nil,
                            fileSize, offset, readSize), n.cache)
    ELSE readClusters(n.cache, data, n.entry, clusterNumber + 1, 0,
                      offsetRest, fileSize, offset, readSize)
readClustersRead(s, currentCluster, clusterNumber, offsetRest, fileSize, offset, readSize) ==
    IF s.err # Nil
    THEN withCache(finalize(s.data, s.err, fileSize, offset, readSize), s.cache)
    ELSE IF readSize > 0
            /\ (clusterNumber + 1) * ClusterSize >= offset + readSize
    THEN withCache(finalize(s.data, Nil, fileSize, offset, readSize), s.cache)
    ELSE readClustersNext(getFatEntry(s.cache, currentCluster), s.data,
                          clusterNumber, offsetRest, fileSize, offset, readSize)
readClusters(cache, data, currentCluster, clusterNumber, skip, offsetRest, fileSize, offset, readSize) ==
    readClustersRead(
        readSectors(cache, data,
                    (currentCluster - 2) * SectorsPerCluster + FirstDataSector,
                    skip, offsetRest),
        currentCluster, clusterNumber, offsetRest, fileSize, offset, readSize)

\* skip: the sectors of the first cluster to skip, a uint8.
skipOf(offset, clusterNumber) ==
    ((offset - clusterNumber * ClusterSize) \div BytesPerSector) % 256
readFileAtFrom(st, fileSize, offset, readSize) ==
    IF st.kind = "return"
    THEN withCache(finalize(<< >>, st.err, fileSize, offset, readSize), st.cache)
    ELSE readClusters(st.cache, << >>, st.cluster, st.number,
                      skipOf(offset, st.number),
                      offset - st.number * ClusterSize
                      - BytesPerSector * skipOf(offset, st.number),
                      fileSize, offset, readSize)
readFileAt(cache, cluster, fileSize, offset, readSize) ==
    readFileAtFrom(findStartCluster(cache, cluster, 0, offset),
                   fileSize, offset, readSize)

(***************************** the file at hand ****************************)
\* chainOf(c): the clusters of the chain that starts at c, as the FAT links
\* them, up to the first entry that does not read as a next cluster.
RECURSIVE chainFrom(_, _)
chainFrom(c, seen) ==
    IF c \notin Clusters \/ c \in seen THEN << >>
    ELSE IF fat[c] \in Clusters THEN <<c>> \o chainFrom(fat[c], seen \cup {c})
    ELSE <<c>>
chainOf(c) == chainFrom(c, {})
\* The k-th byte (from 0) of the file whose chain is ch.
FileByte(ch, k) ==
    LET c == ch[(k \div ClusterSize) + 1]
    IN  ((c - 2) * SectorsPerCluster + FirstDataSector) * BytesPerSector
        + (k % ClusterSize)
\* The bytes [from, to) of the file whose chain is ch.
FileBytes(ch, from, to) ==
    [i \in 1..Max(to - from, 0) |-> FileByte(ch, from + i - 1)]


(***************************** directory decoder ***************************)
\* A 32-byte slot, decoded: name are its bytes 0..10 (Name of an EntryHeader;
\* Sequence and First of a LongFilenameEntry), attr its byte 11, chk its
\* byte 13 (Checksum of a LongFilenameEntry), tail the code units Second and
\* Third of a LongFilenameEntry, cluster and size the first cluster and the
\* FileSize of an EntryHeader.
AttrVolumeId == 8
AttrDirectory == 16
AttrLongName == 15
BitSet(b, bit) == (b \div bit) % 2 = 1

Sequence(slot) == slot.name[1]
FirstChars(slot) == [k \in 1..5 |-> slot.name[2 * k] + 256 * slot.name[2 * k + 1]]
SlotChars(slot) == FirstChars(slot) \o slot.tail

\* checksum = (((checksum & 1) << 7) | ((checksum & 0xfe) >> 1)) + Name[i]
RECURSIVE shortNameChecksum(_, _, _)
shortNameChecksum(name, i, checksum) ==
    IF i > 11 THEN checksum
    ELSE shortNameChecksum(name, i + 1,
             (((checksum % 2) * 128) + (checksum \div 2) + name[i]) % 256)

\* The slots of longFilename from the last to the first, the k-th of them
\* checked against the checksum and the sequence number k.
SequenceMask == 16
slotValid(current, checksum, sequenceNumber) ==
    /\ current.chk = checksum
    /\ Sequence(current) % SequenceMask = sequenceNumber % 256
runValid(longFilename, checksum) ==
    \A k \in 1..Len(longFilename) :
        slotValid(longFilename[Len(longFilename) - k + 1], checksum, k)
RECURSIVE runChars(_, _)
runChars(longFilename, k) ==
    IF k > Len(longFilename) THEN << >>
    ELSE SlotChars(longFilename[Len(longFilename) - k + 1])
         \o runChars(longFilename, k + 1)
\* fmt.Sprintf("%c", rune(char)) for each char before the first 0: a
\* surrogate code unit is no rune and prints as U+FFFD.
RenderChar(c) == IF c >= 55296 /\ c <= 57343 THEN 65533 ELSE c
charsEnd(chars) ==
    IF \E i \in 1..Len(chars) : chars[i] = 0
    THEN CHOOSE i \in 1..Len(chars) :
             chars[i] = 0 /\ \A j \in 1..(i - 1) : chars[j] # 0
    ELSE Len(chars) + 1
renderChars(chars) == [j \in 1..(charsEnd(chars) - 1) |-> RenderChar(chars[j])]
extendedNameOf(longFilename, name) ==
    IF runValid(longFilename, shortNameChecksum(name, 1, 0))
    THEN renderChars(runChars(longFilename, 1))
    ELSE << >>

resetLongFilename(st, i) ==
    [st EXCEPT !.longFilename = << >>, !.lastLongFilenameIndex = i]
\* A slot with the long-name attribute.
appendLongFilename(st, slot, i) ==
    IF st.lastLongFilenameIndex + 1 # i
    THEN resetLongFilename(st, i)
    ELSE [st EXCEPT !.longFilename = Append(st.longFilename, slot),
                    !.lastLongFilenameIndex = i]
parseLongFilenameEntry(st, slot, i) ==
    IF Sequence(slot) = 229 THEN st
    ELSE IF BitSet(Sequence(slot), 64)
    THEN appendLongFilename(resetLongFilename(st, i - 1), slot, i)
    ELSE appendLongFilename(st, slot, i)
newEntryOfPending(st, entry, i) ==
    [name |-> entry.name, attr |-> entry.attr, cluster |-> entry.cluster,
     size |-> entry.size,
     ExtendedName |->
         IF st.longFilename # << >>
         THEN extendedNameOf(st.longFilename, entry.name)
         ELSE << >>]
\* A real short entry: emitted, with the long name of a valid pending run.
newEntryOf(st, entry, i) ==
    [name |-> entry.name, attr |-> entry.attr, cluster |-> entry.cluster,
     size |-> entry.size,
     ExtendedName |->
         IF st.longFilename # << >> /\ st.lastLongFilenameIndex + 1 = i
         THEN extendedNameOf(st.longFilename, entry.name)
         ELSE << >>]
emitEntry(st, entry, i) ==
    resetLongFilename(
        [st EXCEPT !.directory = Append(st.directory, newEntryOf(st, entry, i))],
        i)
\* Name[0] = 0x05 stands for 0xE5.
unescapeName(slot) ==
    IF slot.name[1] = 5
    THEN [slot EXCEPT !.name = <<229>> \o SubSeq(slot.name, 2, 11)]
    ELSE slot
\* One round of the loop over the entries, for a slot that does not end it.
\* (a round that does not skip the dot entries)
parseEntryKeepDot(st, slot, i) ==
    IF slot.name[1] = 229 THEN st
    ELSE IF slot.attr % 16 = AttrLongName THEN parseLongFilenameEntry(st, slot, i)
    ELSE IF BitSet(slot.attr, AttrVolumeId) THEN st
    ELSE emitEntry(st, unescapeName(slot), i)
parseEntry(st, slot, i) ==
    IF slot.name[1] = 46 THEN st
    ELSE IF slot.name[1] = 229 THEN st
    ELSE IF slot.attr % 16 = AttrLongName THEN parseLongFilenameEntry(st, slot, i)
    ELSE IF BitSet(slot.attr, AttrVolumeId) THEN st
    ELSE emitEntry(st, unescapeName(slot), i)
RECURSIVE parseDirLoop(_, _, _)
parseDirLoop(entries, i, st) ==
    IF i >= Len(entries) THEN st.directory
    ELSE IF entries[i + 1].name[1] = 0 THEN st.directory
    ELSE parseDirLoop(entries, i + 1, parseEntry(st, entries[i + 1], i))
parseDir(entries) ==
    parseDirLoop(entries, 0,
                 [longFilename |-> << >>, lastLongFilenameIndex |-> -1,
                  directory |-> << >>])

\* entryHeaderFileInfo.Name, IsDir, Size
RECURSIVE TrimRight(_)
TrimRight(s) ==
    IF Len(s) > 0 /\ s[Len(s)] = 32 THEN TrimRight(SubSeq(s, 1, Len(s) - 1))
    ELSE s
shortName(name) ==
    IF TrimRight(SubSeq(name, 9, 11)) # << >>
    THEN TrimRight(SubSeq(name, 1, 8)) \o <<46>> \o TrimRight(SubSeq(name, 9, 11))
    ELSE TrimRight(SubSeq(name, 1, 8))
Name(entry) ==
    IF entry.ExtendedName # << >> THEN entry.ExtendedName
    ELSE shortName(entry.name)
IsDir(entry) == BitSet(entry.attr, AttrDirectory)

(***************************** initial volumes *****************************)
\* The sequences of distinct clusters of length 1..n: the chains a file has.
RECURSIVE ChainsUpTo(_)
ChainsUpTo(n) ==
    IF n = 0 THEN {}
    ELSE {<<c>> : c \in Clusters} \cup ChainsUpTo(n - 1)
         \cup {ch \o <<c>> : ch \in ChainsUpTo(n - 1), c \in Clusters}
Distinct(ch) == \A i, j \in 1..Len(ch) : i # j => ch[i] # ch[j]
Chains == {ch \in ChainsUpTo(MaxCluster - 1) : Distinct(ch)}
\* How a chain ends: Free, or the FAT16 end-of-chain value 0xFFFF.
EndMarks == {0, 65535}
\* The FAT that links the clusters of ch and ends the chain with mark; the
\* entries 0 and 1 hold the media and end-of-chain words, other clusters are
\* free.
FatOf(ch, mark) ==
    [c \in 0..MaxCluster |->
        IF c < 2 THEN 65535
        ELSE IF \E i \in 1..Len(ch) - 1 : ch[i] = c
        THEN ch[(CHOOSE i \in 1..Len(ch) - 1 : ch[i] = c) + 1]
        ELSE IF ch[Len(ch)] = c THEN mark
        ELSE 0]
MaxBytes == (MaxCluster - 1) * ClusterSize
Sectors == 0..(TotalSectorCount - 1)
NoCall == [op |-> "none", offset |-> 0, readSize |-> 0, data |-> << >>, err |-> Nil]
NoHandle == [open |-> FALSE]
NoRet == [op |-> "none"]
NoListing == [done |-> FALSE, directory |-> << >>]
\* Fs.initialize sets current to 0xFFFFFFFF, written -1 here: no sector of the
\* model has that number.
SentinelCache == [current |-> -1, buffer |-> << >>]
\* Fs.initialize then fetches the sector 0.
BootCache == fetch(SentinelCache, 0).cache
\* The Fs between two calls: the mutex is free (holder 0), the reader stands
\* where the last fetch left it, the sector size is the volume's.
IdleFs ==
    [lock |-> 0, pos |-> 0, BytesPerSector |-> BytesPerSector,
     end |-> TotalSectorCount * BytesPerSector, FSType |-> "FAT16"]

InitVolume ==
    /\ fs = IdleFs
    /\ \E ch \in Chains, mark \in EndMarks :
           /\ fat = FatOf(ch, mark)
           /\ \E size \in -1..(MaxBytes + 1) :
                  file = [firstCluster |-> ch[1], size |-> size]
    /\ sectorCache = BootCache

(***************************** SpecRead ************************************)
\* readFileAt called with the file's first cluster and size, at any offset
\* and for any read size, on a source without read failures.
InitRead ==
    /\ bad = {}
    /\ InitVolume
    /\ \E offset \in 0..(MaxBytes + 1), readSize \in -1..(MaxBytes + 2) :
           call = [op |-> "pending", offset |-> offset, readSize |-> readSize,
                   data |-> << >>, err |-> Nil]
    /\ handle = NoHandle
    /\ ret = NoRet
    /\ dir = << >>
    /\ listing = NoListing
    /\ slots = << >>

ReadFileAt ==
    /\ call.op = "pending"
    /\ LET r == readFileAt(sectorCache, file.firstCluster, file.size,
                           call.offset, call.readSize)
       IN  /\ call' = [call EXCEPT !.op = "readFileAt", !.data = r.data,
                                   !.err = r.err]
           /\ sectorCache' = r.cache
    /\ UNCHANGED <<fs, fat, bad, file, handle, ret, dir, listing, slots>>

NextRead == ReadFileAt
SpecRead == InitRead /\ [][NextRead]_vars

WellFormed == file.size >= 0 /\ Len(chainOf(file.firstCluster)) * ClusterSize >= file.size

\* C1: for a well-formed chain and a known file size, a read of readSize > 0
\* bytes at 0 <= offset < fileSize returns exactly the file bytes
\* [offset, min(offset + readSize, fileSize)), and io.EOF exactly when
\* readSize > fileSize - offset (no error otherwise).
C1_RangeRead ==
    (call.op = "readFileAt" /\ WellFormed /\ call.offset < file.size
     /\ call.readSize > 0)
    => /\ call.data = FileBytes(chainOf(file.firstCluster), call.offset,
                                Min(call.offset + call.readSize, file.size))
       /\ (Is(call.err, "io.EOF") <=> call.readSize > file.size - call.offset)
       /\ call.err \in {Nil, EOF}
\* C1 witness: a read that starts exactly on the boundary of the second
\* cluster and runs past the end of the file.
C1_Witness ==
    /\ call.op = "readFileAt" /\ WellFormed
    /\ call.offset = ClusterSize /\ call.offset < file.size
    /\ call.readSize > file.size - call.offset
    /\ call.err = EOF /\ Len(call.data) = file.size - call.offset


\* C2: readFileAt(first, fileSize, 0, 0) with a known fileSize returns exactly
\* the fileSize bytes of the file and no error when the chain holds at least
\* fileSize bytes; when the chain ends before, it returns the bytes of the
\* clusters that exist and an error that is io.ErrUnexpectedEOF and is not
\* io.EOF.
C2_WholeFile ==
    (call.op = "readFileAt" /\ file.size >= 0 /\ call.offset = 0
     /\ call.readSize = 0)
    => LET ch == chainOf(file.firstCluster)
       IN  IF Len(ch) * ClusterSize >= file.size
           THEN call.data = FileBytes(ch, 0, file.size) /\ call.err = Nil
           ELSE /\ call.data = FileBytes(ch, 0, Len(ch) * ClusterSize)
                /\ Is(call.err, "io.ErrUnexpectedEOF")
                /\ ~Is(call.err, "io.EOF")
\* C2 witnesses: a chain of two clusters read whole with a size that leaves
\* slack in the last cluster; and a chain that ends before fileSize.
C2_Witness ==
    /\ call.op = "readFileAt" /\ call.offset = 0 /\ call.readSize = 0
    /\ Len(chainOf(file.firstCluster)) = 2
    /\ file.size = ClusterSize + 1
    /\ Len(call.data) = file.size /\ call.err = Nil
C2_WitnessShort ==
    /\ call.op = "readFileAt" /\ call.offset = 0 /\ call.readSize = 0
    /\ Len(chainOf(file.firstCluster)) = 1
    /\ file.size = ClusterSize + 1
    /\ Len(call.data) = ClusterSize
    /\ call.err = <<"ErrReadFilesystemFile", "io.ErrUnexpectedEOF">>


(***************************** SpecDir *************************************)
\* parseDir applied to directory data: every sequence of up to MaxSlots slots
\* of SlotAlphabet, and the directories RunDir made of one long-name run of
\* up to MaxRunLen slots before a short entry.
MaxSlots == 3
MaxRunLen == 16

ZeroTail == <<0, 0, 0, 0, 0, 0, 0, 0>>
PadTail == <<65535, 65535, 65535, 65535, 65535, 65535, 65535, 65535>>
ShortSlot(name, attr, cluster, size) ==
    [name |-> name, attr |-> attr, chk |-> 0, tail |-> ZeroTail,
     cluster |-> cluster, size |-> size]
\* A long-name slot: its 13 code units chars, First in the bytes 1..10.
LfnSlot(seq, chars, chk, attr) ==
    [name |-> <<seq>> \o [j \in 1..10 |->
                             IF j % 2 = 1 THEN chars[(j + 1) \div 2] % 256
                             ELSE chars[j \div 2] \div 256],
     attr |-> attr, chk |-> chk, tail |-> SubSeq(chars, 6, 13),
     cluster |-> 0, size |-> 0]

\* "HELLOW~1TXT", "D          ", and a name whose first byte 0xE5 is stored
\* as 0x05.
NameHello == <<72, 69, 76, 76, 79, 87, 126, 49, 84, 88, 84>>
NameD == <<68, 32, 32, 32, 32, 32, 32, 32, 32, 32, 32>>
NameKanji == <<5, 66, 32, 32, 32, 32, 32, 32, 84, 88, 32>>
RawChecksum(name) == shortNameChecksum(name, 1, 0)
\* "ab", ended by 0 and padded with 0xFFFF.
CharsAb == <<97, 98, 0>> \o [j \in 1..10 |-> 65535]
\* The 13 code units of the slot with ordinal k of a run of n slots: the
\* letter 64 + k; the last two of the slot n are the end 0 and padding.
RunSlotChars(k, n) ==
    [j \in 1..13 |-> IF k = n /\ j = 12 THEN 0
                     ELSE IF k = n /\ j = 13 THEN 65535
                     ELSE 64 + k]
\* The long name a run of n such slots spells.
RunName(n) ==
    [j \in 1..(13 * n - 2) |-> 64 + ((j - 1) \div 13) + 1]

SlotAlphabet ==
    { ShortSlot(<<0>> \o SubSeq(NameD, 2, 11), 0, 0, 0),
      ShortSlot(<<229>> \o SubSeq(NameHello, 2, 11), 32, 2, 1),
      ShortSlot(<<46>> \o SubSeq(NameD, 2, 11), 16, 2, 0),
      ShortSlot(NameD, 8, 0, 0),
      ShortSlot(NameD, 24, 0, 0),
      ShortSlot(NameHello, 32, 2, 3),
      ShortSlot(NameKanji, 32, 3, 1),
      ShortSlot(NameD, 16, 3, 0),
      LfnSlot(65, CharsAb, RawChecksum(NameHello), 15),
      LfnSlot(1, CharsAb, RawChecksum(NameHello), 15),
      LfnSlot(5, CharsAb, RawChecksum(NameHello), 31),
      LfnSlot(229, CharsAb, RawChecksum(NameHello), 15) }
RECURSIVE SeqsUpTo(_, _)
SeqsUpTo(S, n) ==
    IF n = 0 THEN {<< >>}
    ELSE SeqsUpTo(S, n - 1)
         \cup {Append(q, x) : q \in {r \in SeqsUpTo(S, n - 1) : Len(r) = n - 1},
                               x \in S}
SmallDirs == SeqsUpTo(SlotAlphabet, MaxSlots)

\* A run of n long-name slots, ordinals n down to 1, the start bit 0x40 on
\* the first when startBit, the checksum of the short name in every slot but
\* the slot with ordinal corrupt, then the short entry.
RunDir(n, corrupt, startBit, name) ==
    [i \in 1..n |->
        LfnSlot((n - i + 1) + (IF i = 1 /\ startBit THEN 64 ELSE 0),
                RunSlotChars(n - i + 1, n),
                IF corrupt = n - i + 1 THEN (RawChecksum(name) + 1) % 256
                ELSE RawChecksum(name),
                15)]
    \o <<ShortSlot(name, 32, 2, 3)>>
RunDirs ==
    {RunDir(n, corrupt, startBit, name) :
        n \in 1..MaxRunLen, corrupt \in 0..MaxRunLen, startBit \in BOOLEAN,
        name \in {NameHello, NameKanji}}

\* One long-name slot with the sequence byte seq before the short entry: the
\* ordinals 1 and 17 and 33, with and without the start bit 0x40.
OrdinalDirs ==
    {<<LfnSlot(seq, CharsAb, RawChecksum(NameHello), 15),
       ShortSlot(NameHello, 32, 2, 3)>> : seq \in {1, 17, 33, 65, 81, 97}}
\* A run of two slots, then a slot that is no part of it, then two short
\* entries with the name of the run's checksum.
HoleSlots ==
    { ShortSlot(<<229>> \o SubSeq(NameHello, 2, 11), 32, 2, 1),
      ShortSlot(<<46>> \o SubSeq(NameD, 2, 11), 16, 2, 0),
      ShortSlot(NameD, 8, 0, 0),
      LfnSlot(229, CharsAb, RawChecksum(NameHello), 15) }
HoleDirs ==
    {SubSeq(RunDir(2, 0, startBit, NameHello), 1, 2)
     \o <<hole, ShortSlot(NameHello, 32, 2, 3), ShortSlot(NameHello, 32, 3, 1)>> :
        hole \in HoleSlots, startBit \in BOOLEAN}

InitDir ==
    /\ fs = IdleFs
    /\ dir \in SmallDirs \cup RunDirs \cup OrdinalDirs \cup HoleDirs
    /\ listing = NoListing
    /\ fat = FatOf(<<2>>, 65535)
    /\ bad = {}
    /\ sectorCache = BootCache
    /\ file = [firstCluster |-> 2, size |-> 0]
    /\ call = NoCall
    /\ handle = NoHandle
    /\ ret = NoRet
    /\ slots = << >>
ParseDir ==
    /\ ~listing.done
    /\ listing' = [done |-> TRUE, directory |-> parseDir(dir)]
    /\ UNCHANGED <<fs, fat, bad, sectorCache, file, call, handle, ret, dir, slots>>
NextDir == ParseDir
SpecDir == InitDir /\ [][NextDir]_vars


\* The index of the first slot whose first name byte is 0x00 (Len + 1: none).
EndIndex(d) ==
    IF \E i \in 1..Len(d) : d[i].name[1] = 0
    THEN CHOOSE i \in 1..Len(d) :
             d[i].name[1] = 0 /\ \A j \in 1..(i - 1) : d[j].name[1] # 0
    ELSE Len(d) + 1
BeforeEnd(d) == SubSeq(d, 1, EndIndex(d) - 1)
IsLfnSlot(slot) == slot.attr % 16 = 15
Surfaced(slot) ==
    /\ slot.name[1] # 229 /\ slot.name[1] # 46
    /\ ~IsLfnSlot(slot) /\ (slot.attr \div 8) % 2 = 0
HeaderOf(e) ==
    [name |-> e.name, attr |-> e.attr, cluster |-> e.cluster, size |-> e.size]
Headers(q) == [i \in 1..Len(q) |-> HeaderOf(q[i])]
Unescaped(slot) ==
    [name |-> IF slot.name[1] = 5 THEN <<229>> \o SubSeq(slot.name, 2, 11)
              ELSE slot.name,
     attr |-> slot.attr, cluster |-> slot.cluster, size |-> slot.size]
SurfacedHeaders(d) ==
    LET q == SelectSeq(BeforeEnd(d), Surfaced)
    IN  [i \in 1..Len(q) |-> Unescaped(q[i])]

\* C6: parseDir emits, in slot order, exactly the short entries before the
\* first 0x00 slot that are not deleted, not dot entries, not long-name slots
\* and not volume-id entries, a leading 0x05 turned into 0xE5; and the slots
\* at or after the 0x00 slot do not change the result.
C6_EmittedEntries ==
    listing.done
    => /\ Headers(listing.directory) = SurfacedHeaders(dir)
       /\ listing.directory = parseDir(BeforeEnd(dir))
\* C6 witness: an entry stored with 0x05 is emitted with 0xE5, after a
\* deleted slot and before a 0x00 slot that a further entry follows.
C6_Witness ==
    /\ listing.done /\ Len(dir) = MaxSlots
    /\ dir[1].name[1] = 229 /\ dir[2].name[1] = 5 /\ dir[3].name[1] = 0
    /\ Len(listing.directory) = 1 /\ listing.directory[1].name[1] = 229

\* The directory d is a run of long-name slots, ordinals Len(d) - 1 down to 1
\* (the first with or without the start bit), then a short entry that is
\* emitted.
IsRunBeforeShort(d) ==
    /\ Len(d) >= 2
    /\ Surfaced(d[Len(d)]) /\ d[Len(d)].name[1] # 0
    /\ \A i \in 1..(Len(d) - 1) :
           /\ IsLfnSlot(d[i])
           /\ \/ d[i].name[1] = Len(d) - i
              \/ i = 1 /\ d[i].name[1] = Len(d) - i + 64
\* The slots of the run whose checksum byte is not the checksum of the 11
\* short-name bytes.
WrongChecksums(d) ==
    {i \in 1..(Len(d) - 1) : d[i].chk # RawChecksum(d[Len(d)].name)}
\* The long name the run spells: the code units of the slots from the one
\* nearest the short entry outwards, up to the first 0.
LogicalChars(d) ==
    [j \in 1..(13 * (Len(d) - 1)) |->
        SlotChars(d[Len(d) - 1 - ((j - 1) \div 13)])[((j - 1) % 13) + 1]]
LongNameOf(d) == renderChars(LogicalChars(d))

\* C5 as claimed (for short names that do not start with the escape 0x05): a
\* short entry after a run with the right checksum in every slot and ordinals
\* descending to 1 is emitted with the long name; with the checksum of one
\* slot wrong it is emitted once, without long name, under its 8.3 name.
C5_LongNameOrShortName ==
    (listing.done /\ IsRunBeforeShort(dir) /\ dir[Len(dir)].name[1] # 5
     /\ Cardinality(WrongChecksums(dir)) <= 1)
    => /\ Len(listing.directory) = 1
       /\ Headers(listing.directory) = <<Unescaped(dir[Len(dir)])>>
       /\ IF WrongChecksums(dir) = {}
          THEN listing.directory[1].ExtendedName = LongNameOf(dir)
          ELSE /\ listing.directory[1].ExtendedName = << >>
               /\ Name(listing.directory[1]) = shortName(dir[Len(dir)].name)
\* What holds of the code: the same for the runs of at most 15 slots.
C5_UpTo15Slots ==
    (Len(dir) <= 16) => C5_LongNameOrShortName


(***************************** readDir, readRoot ***************************)
\* The slot of 32 zero bytes, and the slot stored at the position p.
ZeroSlot == ShortSlot([j \in 1..11 |-> 0], 0, 0, 0)
SlotAt(p) == IF p \in DOMAIN slots THEN slots[p] ELSE ZeroSlot
\* binary.Read of the data into len(data)/32 entry headers.
entriesOf(data) ==
    [k \in 1..(Len(data) \div DirEntrySize) |->
        SlotAt(data[(k - 1) * DirEntrySize + 1])]

readDirAtSectorFetched(f, data, sectorNum, i) ==
    IF f.err # Nil
    THEN [content |-> << >>, err |-> Wrap(f.err, "ErrReadFilesystemDir"),
          cache |-> f.cache]
    ELSE [content |-> << >>, err |-> Nil, cache |-> f.cache,
          data |-> data \o f.sector.buffer]
RECURSIVE readDirAtSectorLoop(_, _, _, _)
readDirAtSectorNext(r, sectorNum, i) ==
    IF r.err # Nil THEN r
    ELSE readDirAtSectorLoop(r.cache, r.data, sectorNum, i + 1)
readDirAtSectorLoop(cache, data, sectorNum, i) ==
    IF i >= RootDirSectors
    THEN [content |-> parseDir(entriesOf(data)), err |-> Nil, cache |-> cache]
    ELSE readDirAtSectorNext(
             readDirAtSectorFetched(fetch(cache, sectorNum + i), data,
                                    sectorNum, i),
             sectorNum, i)
readDirAtSector(cache, sectorNum) ==
    readDirAtSectorLoop(cache, << >>, sectorNum, 0)

readDirRead(r) ==
    IF r.err # Nil
    THEN [content |-> << >>, err |-> Wrap(r.err, "ErrReadFilesystemDir"),
          cache |-> r.cache]
    ELSE [content |-> parseDir(entriesOf(r.data)), err |-> Nil,
          cache |-> r.cache]
readDir(cache, cluster) == readDirRead(readFileAt(cache, cluster, -1, 0, 0))

\* fat32Specific.RootCluster, read on FAT32 only.
RootCluster == 2
rewrapRoot(r) == [r EXCEPT !.err = Wrap(r.err, "ErrReadFilesystemDir")]
readRoot(cache) ==
    IF FSType = "FAT16"
    THEN rewrapRoot(readDirAtSector(cache, FirstRootSector))
    ELSE rewrapRoot(readDir(cache, RootCluster))

(***************************** paths ***************************************)
\* A path is the sequence of its bytes.
Slash == 47
Dot == <<46>>
DotDot == <<46, 46>>
UpperChar(c) == IF c >= 97 /\ c <= 122 THEN c - 32 ELSE c
ToUpper(str) == [j \in 1..Len(str) |-> UpperChar(str[j])]
RECURSIVE TrimLeft(_)
TrimLeft(str) ==
    IF Len(str) > 0 /\ str[1] = 32 THEN TrimLeft(Tail(str)) ELSE str
Trim(str) == TrimLeft(TrimRight(str))
\* strings.Split(path, "/")
RECURSIVE SplitFrom(_, _, _)
SplitFrom(str, i, part) ==
    IF i > Len(str) THEN <<part>>
    ELSE IF str[i] = Slash THEN <<part>> \o SplitFrom(str, i + 1, << >>)
    ELSE SplitFrom(str, i + 1, Append(part, str[i]))
Split(str) == SplitFrom(str, 1, << >>)
TrimSuffixSlash(str) ==
    IF Len(str) > 0 /\ str[Len(str)] = Slash THEN SubSeq(str, 1, Len(str) - 1)
    ELSE str
\* io/fs.ValidPath: "." or slash-separated elements none of which is empty,
\* "." or "..".
ValidPath(path) ==
    \/ path = Dot
    \/ /\ path # << >>
       /\ \A k \in 1..Len(Split(path)) :
              Split(path)[k] \notin {<< >>, Dot, DotDot}

(***************************** Open ****************************************)
fakeEntry ==
    [name |-> [j \in 1..11 |-> 32], attr |-> AttrDirectory, cluster |-> 0,
     size |-> 0, ExtendedName |-> << >>]
rootFile == 
    [open |-> TRUE, path |-> << >>, isDirectory |-> TRUE, firstCluster |-> 0,
     stat |-> fakeEntry, offset |-> 0]
fileOf(entry, path) ==
    [open |-> TRUE, path |-> path, isDirectory |-> IsDir(entry),
     firstCluster |-> entry.cluster, stat |-> entry, offset |-> 0]
\* The File that Close leaves behind: every field zeroed, stat nil.
NilStat == [nil |-> TRUE]
closedFile ==
    [open |-> FALSE, path |-> << >>, isDirectory |-> FALSE, firstCluster |-> 0,
     stat |-> NilStat, offset |-> 0]
\* A File object exists: Open returned it, closed since or not.
IsFile(f) == f.open \/ f = closedFile
\* A method called on the nil stat aborts the caller.
Panic == <<"panic">>
\* The comparison of Open: the trimmed name of the entry against the path
\* part, both in upper case.
matches(entry, pathPart) == ToUpper(Trim(Name(entry))) = ToUpper(pathPart)
\* (a comparison that knows the 8.3 name as well)
matchesEitherName(entry, pathPart) ==
    \/ ToUpper(Trim(Name(entry))) = ToUpper(pathPart)
    \/ ToUpper(Trim(shortName(entry.name))) = ToUpper(pathPart)
firstMatch(content, pathPart) ==
    CHOOSE k \in 1..Len(content) :
        /\ matches(content[k], pathPart)
        /\ \A j \in 1..(k - 1) : ~matches(content[j], pathPart)
RECURSIVE pathLoop(_, _, _, _, _)
pathLoopDeeper(r, dirParts, i, path) ==
    IF r.err # Nil
    THEN [file |-> NoHandle, err |-> Wrap(r.err, "ErrOpenFilesystem"),
          cache |-> r.cache, text |-> << >>]
    ELSE pathLoop(r.cache, r.content, dirParts, i + 1, path)
\* (a walk that descends into whatever entry matches)
pathLoopMatchedAnyEntry(cache, entry, dirParts, i, path) ==
    IF i = Len(dirParts) - 1
    THEN [file |-> fileOf(entry, path), err |-> Nil, cache |-> cache, text |-> << >>]
    ELSE pathLoopDeeper(readDir(cache, entry.cluster), dirParts, i, path)
pathLoopMatched(cache, entry, dirParts, i, path) ==
    IF i = Len(dirParts) - 1
    THEN [file |-> fileOf(entry, path), err |-> Nil, cache |-> cache, text |-> << >>]
    ELSE IF ~IsDir(entry)
    THEN [file |-> NoHandle, err |-> Wrap(<<"ENOTDIR">>, "ErrOpenFilesystem"),
          cache |-> cache, text |-> << >>]
    ELSE pathLoopDeeper(readDir(cache, entry.cluster), dirParts, i, path)
pathLoop(cache, content, dirParts, i, path) ==
    IF i >= Len(dirParts)
    THEN [file |-> NoHandle,
          err |-> Wrap(<<"ErrOpenFilesystem">>, "path doesn't exist"),
          cache |-> cache, text |-> path]
    ELSE IF dirParts[i + 1] = << >>
    THEN pathLoop(cache, content, dirParts, i + 1, path)
    ELSE IF \E k \in 1..Len(content) : matches(content[k], dirParts[i + 1])
    THEN pathLoopMatched(cache, content[firstMatch(content, dirParts[i + 1])],
                         dirParts, i, path)
    ELSE [file |-> NoHandle,
          err |-> Wrap(<<"ErrOpenFilesystem">>, "no matching path found"),
          cache |-> cache, text |-> dirParts[i + 1]]
openRoot(r, path) ==
    IF r.err # Nil
    THEN [file |-> NoHandle, err |-> Wrap(r.err, "ErrOpenFilesystem"),
          cache |-> r.cache, text |-> << >>]
    ELSE pathLoop(r.cache, r.content, Split(path), 0, path)
fsOpen(cache, path) ==
    IF ~ValidPath(path)
    THEN [file |-> NoHandle, err |-> Wrap(<<"ErrInvalidPath">>, "ErrOpenFilesystem"),
          cache |-> cache, text |-> << >>]
    ELSE IF path = Dot \/ path = << >>
    THEN [file |-> rootFile, err |-> Nil, cache |-> cache, text |-> << >>]
    ELSE openRoot(readRoot(cache), TrimSuffixSlash(path))

(***************************** File ****************************************)
SeekStart == 0
SeekCurrent == 1
SeekEnd == 2
Size(f) == f.stat.size
seekTarget(f, offset, whence) ==
    IF whence = SeekStart THEN offset
    ELSE IF whence = SeekCurrent THEN f.offset + offset
    ELSE f.stat.size + offset
\* (a Seek that moves the offset whatever the target)
fileSeekUnchecked(f, offset, whence) ==
    IF f.stat = NilStat
    THEN [pos |-> 0, err |-> Panic, offset |-> f.offset]
    ELSE [pos |-> seekTarget(f, offset, whence), err |-> Nil,
          offset |-> seekTarget(f, offset, whence)]
\* (a Seek that tests the target against the size only)
fileSeekBelowZero(f, offset, whence) ==
    IF whence \notin {SeekStart, SeekCurrent, SeekEnd}
    THEN [pos |-> 0, err |-> Wrap(<<"ErrSeekFile">>, "EINVAL"),
          offset |-> f.offset]
    ELSE IF f.stat = NilStat
    THEN [pos |-> 0, err |-> Panic, offset |-> f.offset]
    ELSE IF seekTarget(f, offset, whence) > Size(f)
    THEN [pos |-> 0, err |-> Wrap(<<"ErrOutOfRange">>, "ErrSeekFile"),
          offset |-> f.offset]
    ELSE [pos |-> seekTarget(f, offset, whence), err |-> Nil,
          offset |-> seekTarget(f, offset, whence)]
\* File.Seek: the position and the error returned, and the offset afterwards.
fileSeek(f, offset, whence) ==
    IF whence \notin {SeekStart, SeekCurrent, SeekEnd}
    THEN [pos |-> 0, err |-> Wrap(<<"ErrSeekFile">>, "EINVAL"),
          offset |-> f.offset]
    ELSE IF f.stat = NilStat /\ whence = SeekEnd
    THEN [pos |-> 0, err |-> Panic, offset |-> f.offset]
    ELSE IF f.stat = NilStat /\ seekTarget(f, offset, whence) >= 0
    THEN [pos |-> 0, err |-> Panic, offset |-> f.offset]
    ELSE IF seekTarget(f, offset, whence) < 0
            \/ seekTarget(f, offset, whence) > Size(f)
    THEN [pos |-> 0, err |-> Wrap(<<"ErrOutOfRange">>, "ErrSeekFile"),
          offset |-> f.offset]
    ELSE [pos |-> seekTarget(f, offset, whence), err |-> Nil,
          offset |-> seekTarget(f, offset, whence)]

\* File.Read with a buffer of len bytes (len = -1: the nil buffer): the count
\* n and the error returned, the bytes copied into the buffer, the offset and
\* the sector cache afterwards.
fileReadSeeked(r, seeked, len) ==
    [n |-> Len(r.data), p |-> Prefix(r.data, Min(len, Len(r.data))),
     err |-> IF r.err # Nil THEN Wrap(r.err, "ErrReadFile")
             ELSE IF seeked.err # Nil THEN Wrap(seeked.err, "ErrReadFile")
             ELSE Nil,
     offset |-> seeked.offset, cache |-> r.cache]
\* (a Read that leaves the offset where it was)
fileReadGotNoSeek(f, r, len) ==
    fileReadSeeked(r, [pos |-> f.offset, err |-> Nil, offset |-> f.offset], len)
fileReadGot(f, r, len) ==
    fileReadSeeked(r, fileSeek(f, Len(r.data), SeekCurrent), len)
fileRead(cache, f, len) ==
    IF len = -1
    THEN [n |-> 0, p |-> << >>, err |-> Nil, offset |-> f.offset, cache |-> cache]
    ELSE IF f.stat = NilStat
    THEN [n |-> 0, p |-> << >>, err |-> Panic, offset |-> f.offset, cache |-> cache]
    ELSE IF Size(f) <= f.offset
    THEN [n |-> 0, p |-> << >>, err |-> EOF, offset |-> f.offset, cache |-> cache]
    ELSE fileReadGot(f, readFileAt(cache, f.firstCluster, Size(f), f.offset, len),
                     len)

fileReadAtGot(r, len) ==
    [n |-> Len(r.data), p |-> Prefix(r.data, Min(len, Len(r.data))),
     err |-> Wrap(r.err, "ErrReadFile"), cache |-> r.cache]
fileReadAt(cache, f, len, off) ==
    IF len = -1
    THEN [n |-> 0, p |-> << >>, err |-> Nil, cache |-> cache]
    ELSE IF f.stat = NilStat
    THEN [n |-> 0, p |-> << >>, err |-> Panic, cache |-> cache]
    ELSE IF Size(f) <= off
    THEN [n |-> 0, p |-> << >>, err |-> EOF, cache |-> cache]
    ELSE fileReadAtGot(readFileAt(cache, f.firstCluster, Size(f), off, len), len)

\* File.Readdir: the entries and the error returned, the offset and the
\* sector cache afterwards.  A slice expression out of range panics.
readdirSlice(f, r, count, end, err) ==
    IF f.offset > end \/ end > Len(r.content)
    THEN [entries |-> << >>, err |-> Panic, offset |-> f.offset,
          cache |-> r.cache]
    ELSE [entries |-> SubSeq(r.content, f.offset + 1, end), err |-> err,
          offset |-> IF count > 0 THEN f.offset + count
                     ELSE IF count < 0 THEN end
                     ELSE f.offset,
          cache |-> r.cache]
readdirCount(f, r, count, err) ==
    readdirSlice(f, r, count,
                 IF count >= 0 THEN f.offset + count ELSE Len(r.content), err)
\* (a Readdir that never reports the end of the directory)
readdirContentNoEOF(f, r, count) ==
    IF r.err # Nil
    THEN [entries |-> << >>, err |-> Wrap(r.err, "ErrReadDir"),
          offset |-> f.offset, cache |-> r.cache]
    ELSE readdirCount(f, r, Min(count, Len(r.content) - f.offset), Nil)
readdirContent(f, r, count) ==
    IF r.err # Nil
    THEN [entries |-> << >>, err |-> Wrap(r.err, "ErrReadDir"),
          offset |-> f.offset, cache |-> r.cache]
    ELSE IF Len(r.content) < f.offset + count
    THEN readdirCount(f, r, Len(r.content) - f.offset, EOF)
    ELSE readdirCount(f, r, count, Nil)
fileReaddir(cache, f, count) ==
    IF ~f.isDirectory
    THEN [entries |-> << >>, err |-> Wrap(<<"ENOTDIR">>, "ErrReadDir"),
          offset |-> f.offset, cache |-> cache]
    ELSE IF f.path = << >> THEN readdirContent(f, readRoot(cache), count)
    ELSE readdirContent(f, readDir(cache, f.firstCluster), count)

Names(entries) == [k \in 1..Len(entries) |-> Name(entries[k])]
readdirnamesGot(r) ==
    IF r.err # Nil
    THEN [names |-> << >>, err |-> Wrap(r.err, "ErrReadDir"),
          offset |-> r.offset, cache |-> r.cache]
    ELSE [names |-> Names(r.entries), err |-> Nil, offset |-> r.offset,
          cache |-> r.cache]
fileReaddirnames(cache, f, count) == readdirnamesGot(fileReaddir(cache, f, count))

\* File.Stat hands out the stat field as it is, nil included, with no error.
fileStat(f) == [info |-> f.stat, err |-> Nil]
\* File.Name asks the stat for its name.
fileName(f) ==
    IF f.stat = NilStat THEN [name |-> << >>, err |-> Panic]
    ELSE [name |-> Name(f.stat), err |-> Nil]


(***************************** Spec ****************************************)
\* A mounted volume whose root directory holds a file with the long name "ab"
\* and the short name HELLOW~1.TXT and, when a cluster is left over, a
\* subdirectory D of up to MaxSlots files A, B, ..; at most one sector of the
\* source fails.  One handle at a time is opened, used and closed.
EntryName(i) == <<64 + i>> \o [j \in 1..10 |-> 32]
DirContent(k) == [i \in 1..k |-> ShortSlot(EntryName(i), 32, 0, i - 1)]
RootContent(ch, size, dcl) ==
    <<LfnSlot(65, CharsAb, RawChecksum(NameHello), 15),
      ShortSlot(NameHello, 32, ch[1], size)>>
    \o (IF dcl # 0 THEN <<ShortSlot(NameD, 16, dcl, 0)>> ELSE << >>)
RootPos(i) == FirstRootSector * BytesPerSector + (i - 1) * DirEntrySize
ClusterPos(c, i) ==
    ((c - 2) * SectorsPerCluster + FirstDataSector) * BytesPerSector
    + (i - 1) * DirEntrySize
SlotsOf(root, dcl, content) ==
    [p \in {RootPos(i) : i \in 1..Len(root)}
           \cup {ClusterPos(dcl, i) : i \in 1..Len(content)} |->
        IF p < FirstDataSector * BytesPerSector
        THEN root[((p - RootPos(1)) \div DirEntrySize) + 1]
        ELSE content[((p - ClusterPos(dcl, 1)) \div DirEntrySize) + 1]]
\* The lowest cluster that the chain ch leaves free, 0 when there is none.
FreeCluster(ch) ==
    IF \E c \in Clusters : \A i \in 1..Len(ch) : ch[i] # c
    THEN CHOOSE c \in Clusters :
             /\ \A i \in 1..Len(ch) : ch[i] # c
             /\ \A b \in Clusters : (\A i \in 1..Len(ch) : ch[i] # b) => c <= b
    ELSE 0
FatWithDir(ch, dcl) ==
    [c \in 0..MaxCluster |-> IF c = dcl /\ dcl # 0 THEN 65535
                             ELSE FatOf(ch, 65535)[c]]
\* The files laid out from the cluster 2 on, one cluster after the other.
FileChains == {[i \in 1..n |-> i + 1] : n \in 1..(MaxCluster - 1)}
\* What fails: nothing, the FAT sector with the entry of the cluster c, the
\* last sector of the cluster c.
BadSectors(kind, c) ==
    IF kind = "fat"
    THEN {ReservedSectorCount + (fatOffsetOf(c) \div BytesPerSector)}
    ELSE IF kind = "data"
    THEN {FirstDataSector + (c - 2) * SectorsPerCluster + SectorsPerCluster - 1}
    ELSE {}
\* The size of the file, the number of files in D, the sector that fails.
Profiles ==
    { [size |-> ClusterSize - 1, k |-> MaxSlots, bad |-> "none"],
      [size |-> ClusterSize + 1, k |-> 1, bad |-> "none"],
      [size |-> ClusterSize - 1, k |-> 0, bad |-> "fat"],
      [size |-> 0, k |-> 2, bad |-> "data"] }

Init ==
    /\ fs = IdleFs
    /\ \E ch \in FileChains, pr \in Profiles :
           /\ fat = FatWithDir(ch, FreeCluster(ch))
           /\ bad = BadSectors(pr.bad, IF pr.size = 0 /\ FreeCluster(ch) # 0
                                        THEN FreeCluster(ch) ELSE 2)
           /\ file = [firstCluster |-> ch[1], size |-> pr.size]
           /\ slots = SlotsOf(RootContent(ch, pr.size, FreeCluster(ch)),
                              FreeCluster(ch),
                              DirContent(IF FreeCluster(ch) = 0 THEN 0
                                         ELSE Min(pr.k, ClusterSize \div DirEntrySize)))
    /\ sectorCache = BootCache
    /\ call = NoCall
    /\ handle = NoHandle
    /\ ret = NoRet
    /\ dir = << >>
    /\ listing = NoListing

\* ".", "", "AB", "hellow~1.txt", "d", "D/a", "ab/A", "zz", "D/", "D/zz"
Paths ==
    { Dot, << >>, <<65, 66>>,
      <<104, 101, 108, 108, 111, 119, 126, 49, 46, 116, 120, 116>>,
      <<100>>, <<68, 47, 97>>, <<97, 98, 47, 65>>, <<122, 122>>, <<68, 47>>,
      <<68, 47, 122, 122>> }
\* The length of the buffer handed to Read and ReadAt; -1 is the nil buffer.
BufLens == {-1, 0, 1, ClusterSize}
ReadAtOffsets == {0, ClusterSize}
SeekOffsets == {-1, 0, 1, ClusterSize + 1}
Whences == 0..3
Counts == {-1, 0, 1, 2, MaxSlots + 1}

Open ==
    /\ ~handle.open
    /\ \E path \in Paths :
           LET r == fsOpen(sectorCache, path)
           IN  /\ handle' = r.file
               /\ sectorCache' = r.cache
               /\ ret' = [op |-> "Open", path |-> path, err |-> r.err,
                          text |-> r.text]
    /\ UNCHANGED <<fs, fat, bad, file, call, dir, listing, slots>>
Close ==
    /\ IsFile(handle)
    /\ handle' = closedFile
    /\ ret' = [op |-> "Close", err |-> Nil]
    /\ UNCHANGED <<fs, fat, bad, sectorCache, file, call, dir, listing, slots>>
Read ==
    /\ IsFile(handle)
    /\ \E len \in BufLens :
           LET r == fileRead(sectorCache, handle, len)
           IN  /\ handle' = [handle EXCEPT !.offset = r.offset]
               /\ sectorCache' = r.cache
               /\ ret' = [op |-> "Read", len |-> len, before |-> handle.offset,
                          n |-> r.n, p |-> r.p, err |-> r.err]
    /\ UNCHANGED <<fs, fat, bad, file, call, dir, listing, slots>>
ReadAt ==
    /\ IsFile(handle)
    /\ \E len \in BufLens, off \in ReadAtOffsets :
           LET r == fileReadAt(sectorCache, handle, len, off)
           IN  /\ sectorCache' = r.cache
               /\ ret' = [op |-> "ReadAt", len |-> len, off |-> off,
                          before |-> handle.offset, n |-> r.n, p |-> r.p,
                          err |-> r.err]
    /\ UNCHANGED <<fs, fat, bad, file, call, handle, dir, listing, slots>>
Seek ==
    /\ IsFile(handle)
    /\ \E off \in SeekOffsets, whence \in Whences :
           LET r == fileSeek(handle, off, whence)
           IN  /\ handle' = [handle EXCEPT !.offset = r.offset]
               /\ ret' = [op |-> "Seek", off |-> off, whence |-> whence,
                          before |-> handle.offset, pos |-> r.pos,
                          err |-> r.err]
    /\ UNCHANGED <<fs, fat, bad, sectorCache, file, call, dir, listing, slots>>
Readdir ==
    /\ IsFile(handle)
    /\ \E count \in Counts :
           LET r == fileReaddir(sectorCache, handle, count)
           IN  /\ handle' = [handle EXCEPT !.offset = r.offset]
               /\ sectorCache' = r.cache
               /\ ret' = [op |-> "Readdir", count |-> count,
                          before |-> handle.offset, entries |-> r.entries,
                          err |-> r.err]
    /\ UNCHANGED <<fs, fat, bad, file, call, dir, listing, slots>>
Readdirnames ==
    /\ IsFile(handle)
    /\ \E count \in Counts :
           LET r == fileReaddirnames(sectorCache, handle, count)
           IN  /\ handle' = [handle EXCEPT !.offset = r.offset]
               /\ sectorCache' = r.cache
               /\ ret' = [op |-> "Readdirnames", count |-> count,
                          before |-> handle.offset, names |-> r.names,
                          err |-> r.err]
    /\ UNCHANGED <<fs, fat, bad, file, call, dir, listing, slots>>
Stat ==
    /\ IsFile(handle)
    /\ ret' = [op |-> "Stat", info |-> fileStat(handle).info,
               err |-> fileStat(handle).err]
    /\ UNCHANGED <<fs, fat, bad, sectorCache, file, call, handle, dir, listing, slots>>
FileName ==
    /\ IsFile(handle)
    /\ ret' = [op |-> "Name", name |-> fileName(handle).name,
               err |-> fileName(handle).err]
    /\ UNCHANGED <<fs, fat, bad, sectorCache, file, call, handle, dir, listing, slots>>
\* checkpoint.From: io.EOF, io.ErrUnexpectedEOF and nil as they are, any
\* other error in a checkpoint with no previous error, which matches what
\* the error matches and nothing else: the kinds are those of err in each
\* of the four cases.
From(err) == err
\* Fs.Stat: Open, then File.Stat of what was opened; the error of a failed
\* Open is replaced by a new error made of a message and the path.
fsStatOpened(r, path) ==
    IF r.err # Nil
    THEN [info |-> NilStat, err |-> From(<<"path doesn't exist">>),
          text |-> path, cache |-> r.cache]
    ELSE [info |-> fileStat(r.file).info, err |-> fileStat(r.file).err,
          text |-> << >>, cache |-> r.cache]
fsStat(cache, path) == fsStatOpened(fsOpen(cache, path), path)
FsStat ==
    /\ \E path \in Paths :
           LET r == fsStat(sectorCache, path)
           IN  /\ ret' = [op |-> "FsStat", path |-> path, info |-> r.info,
                          err |-> r.err]
               /\ sectorCache' = r.cache
    /\ UNCHANGED <<fs, fat, bad, file, call, handle, dir, listing, slots>>

\* The write-shaped operations are all the one statement panic("implement me"):
\* the caller is aborted, nothing is returned and nothing is changed.
implementMe == Panic
FsCreate ==
    /\ \E op \in {"Create", "Mkdir", "MkdirAll"} :
           ret' = [op |-> op, err |-> implementMe]
    /\ UNCHANGED <<fs, fat, bad, sectorCache, file, call, handle, dir, listing, slots>>
FsRemove ==
    /\ \E op \in {"Remove", "RemoveAll", "Rename"} :
           ret' = [op |-> op, err |-> implementMe]
    /\ UNCHANGED <<fs, fat, bad, sectorCache, file, call, handle, dir, listing, slots>>
FsChmod ==
    /\ \E op \in {"Chmod", "Chown", "Chtimes"} :
           ret' = [op |-> op, err |-> implementMe]
    /\ UNCHANGED <<fs, fat, bad, sectorCache, file, call, handle, dir, listing, slots>>
FileWrite ==
    /\ IsFile(handle)
    /\ \E op \in {"Write", "WriteAt"} :
           ret' = [op |-> op, err |-> implementMe]
    /\ UNCHANGED <<fs, fat, bad, sectorCache, file, call, handle, dir, listing, slots>>
\* (WriteString is a call of Write)
FileSync ==
    /\ IsFile(handle)
    /\ \E op \in {"Sync", "Truncate", "WriteString"} :
           ret' = [op |-> op, err |-> implementMe]
    /\ UNCHANGED <<fs, fat, bad, sectorCache, file, call, handle, dir, listing, slots>>

\* The reading operations of a handle, open or closed.
Next ==
    \/ Open \/ Close \/ Read \/ ReadAt \/ Seek \/ Readdir \/ Readdirnames
    \/ Stat \/ FileName
Spec == Init /\ [][Next]_vars
\* The operations of the volume and the write-shaped operations of a handle
\* that is opened, read and closed.
NextVolume ==
    \/ Open \/ Close \/ Read \/ FsStat
    \/ FsCreate \/ FsRemove \/ FsChmod \/ FileWrite \/ FileSync
SpecVolume == Init /\ [][NextVolume]_vars


(***************************** claims on Open and File *********************)
\* The listing of the directory a handle stands for, decoded from the slots
\* of the root region or of the first cluster of the directory.
RootListing == parseDir([i \in 1..RootEntryCount |-> SlotAt(RootPos(i))])
ClusterListing(c) ==
    parseDir([i \in 1..(ClusterSize \div DirEntrySize) |-> SlotAt(ClusterPos(c, i))])
ListingOf(f) ==
    IF f.path = << >> THEN RootListing ELSE ClusterListing(f.firstCluster)
Kinds(err) == {err[i] : i \in 1..Len(err)}

\* C3 as claimed, for a buffer of at least one byte: Read at an offset at or
\* after the file size returns (0, io.EOF) and leaves the offset; every other
\* Read advances the offset by exactly the count n it returns, also when it
\* returns an error.
C3_ReadAdvancesOffset ==
    (ret.op = "Read" /\ ret.len > 0 /\ handle.open)
    => IF ret.before >= Size(handle)
       THEN ret.n = 0 /\ ret.err = EOF /\ handle.offset = ret.before
       ELSE handle.offset = ret.before + ret.n

\* What holds of the code: the same on a source that does not fail.
C3_WithoutReadFailure == bad = {} => C3_ReadAdvancesOffset

\* C4 as claimed: a path of one segment that equals, letter case and
\* surrounding spaces of the name aside, the long name or the 8.3 name of an
\* entry of the root directory opens that entry.
C4_OpenByEitherName ==
    (/\ ret.op = "Open" /\ ValidPath(ret.path) /\ ret.path # Dot
     /\ Len(Split(ret.path)) = 1
     /\ \E k \in 1..Len(RootListing) : matchesEitherName(RootListing[k], ret.path))
    => /\ ret.err = Nil /\ handle.open
       /\ matchesEitherName(handle.stat, ret.path)

\* C7: on a directory whose listing of L entries is read without failure,
\* Readdir(n) with n > 0 returns the entries [offset, min(offset + n, L)),
\* sets the offset to min(offset + n, L), and returns io.EOF exactly when
\* offset + n > L (no error otherwise).
C7_ReaddirWindow ==
    (/\ ret.op = "Readdir" /\ ret.count > 0 /\ handle.isDirectory
     /\ ~Is(ret.err, "ErrReadDir"))
    => /\ ret.before <= Len(ListingOf(handle))
       /\ ret.entries = SubSeq(ListingOf(handle), ret.before + 1,
                               Min(ret.before + ret.count, Len(ListingOf(handle))))
       /\ handle.offset = Min(ret.before + ret.count, Len(ListingOf(handle)))
       /\ IF ret.before + ret.count > Len(ListingOf(handle))
          THEN ret.err = EOF ELSE ret.err = Nil
\* C7 witness: a Readdir that starts inside the listing and asks for more
\* than remains returns the rest with io.EOF and leaves the offset at L.
C7_Witness ==
    /\ ret.op = "Readdir" /\ ret.count > 0 /\ handle.isDirectory
    /\ ret.before > 0 /\ Len(ret.entries) > 0 /\ ret.err = EOF
    /\ ret.before + Len(ret.entries) < ret.before + ret.count
    /\ handle.offset = Len(ListingOf(handle))

\* C8 as claimed: on a directory whose listing is read without failure,
\* Readdir(n) with n <= 0 returns the entries from the offset to the end,
\* with no error, and leaves the offset at the end.
C8_ReaddirAllRemaining ==
    (/\ ret.op = "Readdir" /\ ret.count <= 0 /\ handle.isDirectory
     /\ ~Is(ret.err, "ErrReadDir"))
    => /\ ret.entries = SubSeq(ListingOf(handle), ret.before + 1,
                               Len(ListingOf(handle)))
       /\ ret.err = Nil
       /\ handle.offset = Len(ListingOf(handle))
\* What holds of the code: the same for n < 0.
C8_NegativeCount == (ret.op = "Readdir" /\ ret.count = 0) \/ C8_ReaddirAllRemaining

\* C9 as claimed: a Readdirnames(n) step returns the names of the entries
\* that Readdir(n) returns from the state before the step, with the same
\* error kinds and the same offset afterwards.
C9_ReaddirnamesAsReaddir ==
    [][(ret'.op = "Readdirnames" /\ handle.open)
       => /\ ret'.names = Names(fileReaddir(sectorCache, handle, ret'.count).entries)
          /\ Kinds(ret'.err) = Kinds(fileReaddir(sectorCache, handle, ret'.count).err)
          /\ handle'.offset = fileReaddir(sectorCache, handle, ret'.count).offset]_vars
\* What holds of the code: the same whenever Readdir returns no error.
C9_WhenNoError ==
    [][(/\ ret'.op = "Readdirnames" /\ handle.open
        /\ fileReaddir(sectorCache, handle, ret'.count).err = Nil)
       => /\ ret'.names = Names(fileReaddir(sectorCache, handle, ret'.count).entries)
          /\ ret'.err = Nil
          /\ handle'.offset = fileReaddir(sectorCache, handle, ret'.count).offset]_vars

\* C10: Seek(off, whence) with the target off, offset + off or size + off: a
\* whence other than the three returns EINVAL, a target outside [0, size]
\* returns ErrOutOfRange, both return 0 and leave the offset; otherwise the
\* offset becomes the target, which is returned with no error.
C10_Target ==
    IF ret.whence = SeekStart THEN ret.off
    ELSE IF ret.whence = SeekCurrent THEN ret.before + ret.off
    ELSE Size(handle) + ret.off
C10_Seek ==
    (ret.op = "Seek" /\ handle.open)
    => IF ret.whence \notin {SeekStart, SeekCurrent, SeekEnd}
       THEN Is(ret.err, "EINVAL") /\ ret.pos = 0 /\ handle.offset = ret.before
       ELSE IF C10_Target < 0 \/ C10_Target > Size(handle)
       THEN /\ Is(ret.err, "ErrOutOfRange") /\ ~Is(ret.err, "EINVAL")
            /\ ret.pos = 0 /\ handle.offset = ret.before
       ELSE ret.err = Nil /\ ret.pos = C10_Target /\ handle.offset = C10_Target
\* C10 witness: a Seek from the end to past the end, on a handle whose offset
\* is inside the file, fails and leaves the offset.
C10_Witness ==
    /\ ret.op = "Seek" /\ ret.whence = SeekEnd /\ ret.off > 0
    /\ ret.before > 0 /\ Is(ret.err, "ErrOutOfRange")
    /\ handle.offset = ret.before

\* C11 as claimed: every operation on a handle that Close has been called on
\* (Read with any buffer, ReadAt, Seek, Readdir, Readdirnames, Stat, Name,
\* Close) fails: none returns a success result.
C11_ClosedHandleFails ==
    [][(handle = closedFile /\ ret'.op # "Open") => ret'.err # Nil]_vars
\* What holds of the code: Read and ReadAt with a buffer, Seek, Readdir,
\* Readdirnames and Name on a closed handle return no success result.
C11_ExceptNilBufferStatClose ==
    [][(/\ handle = closedFile
        /\ ret'.op \in {"Read", "ReadAt", "Seek", "Readdir", "Readdirnames", "Name"}
        /\ ret'.op \in {"Read", "ReadAt"} => ret'.len # -1)
       => ret'.err # Nil]_vars

WriteShaped ==
    {"Create", "Mkdir", "MkdirAll", "Remove", "RemoveAll", "Rename", "Chmod",
     "Chown", "Chtimes", "Write", "WriteAt", "WriteString", "Sync", "Truncate"}
\* C12 as claimed: every write-shaped operation of the volume and of a
\* handle returns an unsupported-operation error value to its caller.
C12_ReturnsUnsupported ==
    ret.op \in WriteShaped => (ret.err # Nil /\ ret.err # Panic)
\* What holds of the code: a write-shaped operation never reports success
\* and changes neither the volume nor the handle.
C12_NoSuccessNoChange ==
    [][ret'.op \in WriteShaped
       => /\ ret'.err # Nil
          /\ UNCHANGED <<fat, bad, sectorCache, file, handle, slots>>]_vars

\* The outcome of an Open step that fails and reads nothing after cache.
OpenFailed(kind, cache) ==
    /\ Is(ret'.err, kind) /\ Is(ret'.err, "ErrOpenFilesystem")
    /\ handle' = NoHandle
    /\ sectorCache' = cache
NoMatch(content, part) == \A k \in 1..Len(content) : ~matches(content[k], part)
\* C13: in an Open of a path of one or two segments whose directories are
\* read without failure, a first segment that matches no entry of the root
\* gives the not-found error naming it; a first segment of two that matches
\* an entry that is not a directory gives ENOTDIR; a second segment that
\* matches no entry of the directory gives the not-found error naming it.
\* No handle is returned and the last sector fetched is the last sector of
\* the directory the failing segment was looked up in.
C13_SecondSegment(parts, root, below) ==
    (below.err = Nil /\ NoMatch(below.content, parts[2]))
    => (OpenFailed("no matching path found", below.cache) /\ ret'.text = parts[2])
C13_FirstSegment(parts, root) ==
    IF NoMatch(root.content, parts[1])
    THEN OpenFailed("no matching path found", root.cache) /\ ret'.text = parts[1]
    ELSE IF Len(parts) = 1 THEN TRUE
    ELSE IF ~IsDir(root.content[firstMatch(root.content, parts[1])])
    THEN OpenFailed("ENOTDIR", root.cache)
    ELSE C13_SecondSegment(parts, root,
             readDir(root.cache,
                     root.content[firstMatch(root.content, parts[1])].cluster))
C13_OpenFailingSegment ==
    [][(/\ ret'.op = "Open" /\ ValidPath(ret'.path) /\ ret'.path # Dot
        /\ readRoot(sectorCache).err = Nil)
       => C13_FirstSegment(Split(TrimSuffixSlash(ret'.path)),
                           readRoot(sectorCache))]_vars
\* C13 witness: "ab/A" where ab is a file fails with ENOTDIR, no handle, and
\* the sector left in the cache is a sector of the root directory.
C13_Witness ==
    /\ ret.op = "Open" /\ Len(Split(ret.path)) = 2
    /\ Is(ret.err, "ENOTDIR") /\ handle = NoHandle
    /\ sectorCache.current < FirstDataSector
\* "D/zz" fails in the directory D with the not-found error naming zz; the
\* last sector fetched is the FAT sector looked up at the end of D.
C13_WitnessBelow ==
    /\ ret.op = "Open" /\ Len(Split(ret.path)) = 2
    /\ Is(ret.err, "no matching path found") /\ ret.text = <<122, 122>>
    /\ handle = NoHandle
    /\ sectorCache.current >= ReservedSectorCount
    /\ sectorCache.current < FirstRootSector

\* The synthetic root handle: directory flag set, no first cluster, blank
\* name, offset 0; returned without fetching a sector.
OpenedRoot ==
    /\ ret'.err = Nil
    /\ handle'.open /\ handle'.isDirectory /\ handle'.firstCluster = 0
    /\ Trim(Name(handle'.stat)) = << >> /\ handle'.offset = 0
    /\ sectorCache' = sectorCache
\* C14 as claimed: Open("") and Open(".") both succeed and return the
\* synthetic root handle without fetching any sector.
C14_OpenRoot ==
    [][(ret'.op = "Open" /\ ret'.path \in {<< >>, Dot}) => OpenedRoot]_vars
\* What holds of the code: Open(".") does.
C14_OpenDot ==
    [][(ret'.op = "Open" /\ ret'.path = Dot) => OpenedRoot]_vars

\* The error kinds an Open can fail with: invalid path, not a directory,
\* fetch-sector failure, open-filesystem.
OpenKinds == {"ErrInvalidPath", "ENOTDIR", "ErrFetchingSector", "ErrOpenFilesystem"}
\* C15 as claimed: the error of an Fs.Stat(path) step matches the same kinds
\* as the error that Fs.Open(path) returns from the state before the step.
C15_StatKeepsOpenKinds ==
    [][ret'.op = "FsStat"
       => \A kind \in OpenKinds :
              Is(ret'.err, kind) <=> Is(fsOpen(sectorCache, ret'.path).err, kind)]_vars
\* What holds of the code: Stat fails exactly when Open fails, and leaves
\* the sector cache as Open leaves it.
C15_StatFailsAsOpen ==
    [][ret'.op = "FsStat"
       => /\ (ret'.err = Nil) <=> (fsOpen(sectorCache, ret'.path).err = Nil)
          /\ sectorCache' = fsOpen(sectorCache, ret'.path).cache]_vars


(***************************** mount ***************************************)
\* The fields of the sector 0 that Fs.initialize reads: the BPB, the FAT size
\* of the FAT32 specific data and the two signature bytes.
\* uint32 values are written as their 32 bit two's complement, so that a
\* negative number n stands for 2^32 + n; uint16 values are taken % 65536.
MaxInt32 == 2147483647
Uint16 == 65536
lt32(a, b) == IF a < 0 THEN FALSE ELSE a < b
div32(a, d) ==
    IF a >= 0 THEN a \div d
    ELSE IF d = 1 THEN a
    ELSE 2 * (MaxInt32 \div d) + ((2 * (MaxInt32 % d) + 2 + a) \div d)
InitErr(msg) == From(<<msg, "ErrInitializeFilesystem">>)
\* The checks that skipChecks leaves out: the error of the first that fails.
structuralChecks(bpb) ==
    IF ~(bpb.BSJumpBoot0 = 235 /\ bpb.BSJumpBoot2 = 144) /\ ~(bpb.BSJumpBoot0 = 233)
    THEN InitErr("no valid jump instructions")
    ELSE IF bpb.BytesPerSector \notin {512, 1024, 2048, 4096}
    THEN InitErr("invalid sector size")
    ELSE IF \/ bpb.SectorsPerCluster % 2 # 0
            \/ bpb.SectorsPerCluster = 0
            \/ (bpb.BytesPerSector * bpb.SectorsPerCluster) % Uint16 > 32 * 1024
    THEN InitErr("invalid sectors per cluster")
    ELSE IF bpb.ReservedSectorCount = 0
    THEN InitErr("invalid reserved sector count")
    ELSE IF bpb.NumFATs < 1
    THEN InitErr("invalid FAT count")
    ELSE IF bpb.Media # 240 /\ ~(bpb.Media >= 248 /\ bpb.Media <= 255)
    THEN InitErr("invalid media value")
    ELSE IF bpb.Sig510 # 85 \/ bpb.Sig511 # 170
    THEN InitErr("invalid signature")
    ELSE Nil
rootDirSectors(bpb) ==
    ((bpb.RootEntryCount * 32) + (bpb.BytesPerSector - 1)) \div bpb.BytesPerSector
fatSizeOf(bpb) == IF bpb.FATSize16 # 0 THEN bpb.FATSize16 ELSE bpb.FatSize32
totalSectors(bpb) ==
    IF bpb.TotalSectors16 # 0 THEN bpb.TotalSectors16 ELSE bpb.TotalSectors32
dataSectors(bpb) ==
    totalSectors(bpb) - (bpb.ReservedSectorCount + bpb.NumFATs) + rootDirSectors(bpb)
countOfClusters(bpb) == div32(dataSectors(bpb), bpb.SectorsPerCluster)
\* (a classification whose limits are one cluster higher)
fsTypeOfAbove(count) ==
    IF lt32(count, 4086) THEN "FAT12"
    ELSE IF lt32(count, 65526) THEN "FAT16"
    ELSE "FAT32"
fsTypeOf(count) ==
    IF lt32(count, 4085) THEN "FAT12"
    ELSE IF lt32(count, 65525) THEN "FAT16"
    ELSE "FAT32"
NoInfo == [FSType |-> "none"]
infoOf(bpb, type) ==
    [FSType |-> type, BytesPerSector |-> bpb.BytesPerSector,
     TotalSectorCount |-> totalSectors(bpb),
     SectorsPerCluster |-> bpb.SectorsPerCluster,
     ReservedSectorCount |-> bpb.ReservedSectorCount,
     FirstDataSector |-> bpb.ReservedSectorCount
                         + (bpb.NumFATs * fatSizeOf(bpb)) + rootDirSectors(bpb),
     FatCount |-> bpb.NumFATs, RootEntryCount |-> bpb.RootEntryCount,
     FatSize |-> fatSizeOf(bpb)]
\* The part of Fs.initialize after the structural checks; a division by zero
\* aborts the caller.
initializeTyped(bpb, type) ==
    IF type = "FAT12"
    THEN [err |-> From(<<"FAT12 is not supported", "ErrNotSupported">>),
          info |-> NoInfo]
    ELSE IF \/ type = "FAT32" /\ bpb.RootEntryCount # 0
            \/ /\ type # "FAT32"
               /\ ((bpb.RootEntryCount * 32) % Uint16) % bpb.BytesPerSector # 0
    THEN [err |-> InitErr("invalid root entry count"), info |-> NoInfo]
    ELSE [err |-> Nil, info |-> infoOf(bpb, type)]
initializeCounted(bpb) ==
    IF bpb.BytesPerSector = 0 \/ bpb.SectorsPerCluster = 0
    THEN [err |-> Panic, info |-> NoInfo]
    ELSE initializeTyped(bpb, fsTypeOf(countOfClusters(bpb)))
initialize(bpb, skipChecks) ==
    IF ~skipChecks /\ structuralChecks(bpb) # Nil
    THEN [err |-> structuralChecks(bpb), info |-> NoInfo]
    ELSE initializeCounted(bpb)
\* New and NewSkipChecks: the error of initialize wrapped with
\* ErrOpenFilesystem and no volume, or the volume.
mounted(r) ==
    IF r.err = Panic THEN r
    ELSE [err |-> Wrap(r.err, "ErrOpenFilesystem"), info |-> r.info]
fsNew(bpb) == mounted(initialize(bpb, FALSE))
fsNewSkipChecks(bpb) == mounted(initialize(bpb, TRUE))

\* The sectors 0 that are mounted: a FAT32 volume with every sector size and
\* every number of sectors per cluster; volumes whose count of clusters is at
\* and next to the two limits; a FAT16 volume with one field changed.
MaxByte == 255
Fat32Bpb ==
    [BSJumpBoot0 |-> 235, BSJumpBoot2 |-> 144, BytesPerSector |-> 512,
     SectorsPerCluster |-> 2, ReservedSectorCount |-> 32, NumFATs |-> 2,
     RootEntryCount |-> 0, TotalSectors16 |-> 0, Media |-> 248, FATSize16 |-> 0,
     TotalSectors32 |-> 16777216, FatSize32 |-> 1024, Sig510 |-> 85,
     Sig511 |-> 170]
Fat16Bpb ==
    [BSJumpBoot0 |-> 235, BSJumpBoot2 |-> 144, BytesPerSector |-> 512,
     SectorsPerCluster |-> 2, ReservedSectorCount |-> 1, NumFATs |-> 2,
     RootEntryCount |-> 512, TotalSectors16 |-> 20000, Media |-> 248,
     FATSize16 |-> 40, TotalSectors32 |-> 0, FatSize32 |-> 0, Sig510 |-> 85,
     Sig511 |-> 170]
ClusterSizes ==
    {[Fat32Bpb EXCEPT !.BytesPerSector = bps, !.SectorsPerCluster = spc] :
        bps \in {512, 1024, 2048, 4096}, spc \in 0..MaxByte}
\* The total that gives count clusters of spc sectors, and one sector more.
WithTotal(bpb, total) ==
    IF total < Uint16
    THEN [bpb EXCEPT !.TotalSectors16 = total, !.TotalSectors32 = 0]
    ELSE [bpb EXCEPT !.TotalSectors16 = 0, !.TotalSectors32 = total]
WithCount(bpb, count, more) ==
    WithTotal(bpb, count * bpb.SectorsPerCluster
                   + (bpb.ReservedSectorCount + bpb.NumFATs)
                   - rootDirSectors(bpb) + more)
Limits == {4084, 4085, 4086, 65524, 65525, 65526}
AtLimits ==
    {WithCount([Fat16Bpb EXCEPT !.SectorsPerCluster = spc, !.RootEntryCount = rec],
               count, more) :
        spc \in {2, 4}, rec \in {0, 512}, count \in Limits, more \in {0, 1}}
OneFieldChanged ==
    {[Fat16Bpb EXCEPT !.BSJumpBoot0 = v] : v \in {0, 233}}
    \cup {[Fat16Bpb EXCEPT !.BSJumpBoot2 = 0]}
    \cup {[Fat16Bpb EXCEPT !.BytesPerSector = v] : v \in {0, 513, 1024}}
    \cup {[Fat16Bpb EXCEPT !.SectorsPerCluster = v] : v \in {0, 1, 3}}
    \cup {[Fat16Bpb EXCEPT !.ReservedSectorCount = 0]}
    \cup {[Fat16Bpb EXCEPT !.NumFATs = 0]}
    \cup {[Fat16Bpb EXCEPT !.Media = v] : v \in {0, 240, 247}}
    \cup {[Fat16Bpb EXCEPT !.Sig510 = 0], [Fat16Bpb EXCEPT !.Sig511 = 0]}
    \cup {[Fat16Bpb EXCEPT !.RootEntryCount = v] : v \in {0, 1, 16, 2049}}
    \cup {[Fat32Bpb EXCEPT !.RootEntryCount = 16]}
    \cup {WithTotal(Fat16Bpb, 0)}
    \cup {WithTotal(Fat32Bpb, total) : total \in {0, 33, 34}}
\* A sector size that does not divide 65536, with root entry counts whose
\* 32-fold is and is not a multiple of it.
OddSectorSize ==
    {[Fat16Bpb EXCEPT !.BytesPerSector = 1000, !.RootEntryCount = rec] :
        rec \in {100, 125, 2048}}
Sectors0 == ClusterSizes \cup AtLimits \cup OneFieldChanged \cup OddSectorSize

InitMount ==
    /\ fs = IdleFs
    /\ \E bpb \in Sectors0 : call = [op |-> "mount", bpb |-> bpb]
    /\ ret = NoRet
    /\ fat = << >>
    /\ bad = {}
    /\ sectorCache = SentinelCache
    /\ file = [firstCluster |-> 0, size |-> 0]
    /\ handle = NoHandle
    /\ dir = << >>
    /\ listing = NoListing
    /\ slots = << >>
New ==
    /\ call.op = "mount"
    /\ ret' = [op |-> "New", err |-> fsNew(call.bpb).err,
               info |-> fsNew(call.bpb).info]
    /\ UNCHANGED <<fs, fat, bad, sectorCache, file, call, handle, dir, listing, slots>>
NewSkipChecks ==
    /\ call.op = "mount"
    /\ ret' = [op |-> "NewSkipChecks", err |-> fsNewSkipChecks(call.bpb).err,
               info |-> fsNewSkipChecks(call.bpb).info]
    /\ UNCHANGED <<fs, fat, bad, sectorCache, file, call, handle, dir, listing, slots>>
NextMount == New \/ NewSkipChecks
SpecMount == InitMount /\ [][NextMount]_vars


(***************************** claims on mount *****************************)
PowersOfTwo == {1, 2, 4, 8, 16, 32, 64, 128}
StrictSectorSizes == {512, 1024, 2048, 4096}
\* The size of a cluster in bytes, over the integers.
BytesPerCluster(bpb) == bpb.BytesPerSector * bpb.SectorsPerCluster
\* C16 as claimed: New of a FAT32 sector 0 whose fields other than the sector
\* size and the sectors per cluster are legal, and whose cluster is at most
\* 32 KiB, succeeds when sectors_per_cluster is a power of two from 1 to 128
\* and is rejected with the sectors-per-cluster error otherwise.
C16_PowersOfTwo ==
    (/\ ret.op = "New" /\ call.bpb \in ClusterSizes
     /\ BytesPerCluster(call.bpb) <= 32768)
    => IF call.bpb.SectorsPerCluster \in PowersOfTwo
       THEN ret.err = Nil
       ELSE Is(ret.err, "invalid sectors per cluster")
\* What holds of the code: on these sectors New succeeds when
\* sectors_per_cluster is even and not 0, and is rejected with the
\* sectors-per-cluster error otherwise.
C16_EvenNotZero ==
    (/\ ret.op = "New" /\ call.bpb \in ClusterSizes
     /\ BytesPerCluster(call.bpb) <= 32768)
    => IF call.bpb.SectorsPerCluster % 2 = 0 /\ call.bpb.SectorsPerCluster # 0
       THEN ret.err = Nil
       ELSE Is(ret.err, "invalid sectors per cluster")

\* C17 as claimed: New rejects every sector 0 with a sector size of 512,
\* 1024, 2048 or 4096 whose cluster is larger than 32 KiB.
C17_Above32K ==
    (/\ ret.op = "New" /\ call.bpb.BytesPerSector \in StrictSectorSizes
     /\ BytesPerCluster(call.bpb) > 32768)
    => ret.err # Nil
\* What holds of the code: New rejects these when the size of the cluster
\* taken modulo 65536 is larger than 32 KiB.
C17_Above32KModulo ==
    (/\ ret.op = "New" /\ call.bpb.BytesPerSector \in StrictSectorSizes
     /\ BytesPerCluster(call.bpb) % Uint16 > 32768)
    => Is(ret.err, "invalid sectors per cluster")

StructuralErrors ==
    {"no valid jump instructions", "invalid sector size",
     "invalid sectors per cluster", "invalid reserved sector count",
     "invalid FAT count", "invalid media value", "invalid signature"}
\* C18 as claimed: NewSkipChecks returns the error of none of the structural
\* checks, the invalid-root-entry-count error included.
C18_SkipsStructuralChecks ==
    ret.op = "NewSkipChecks"
    => \A msg \in StructuralErrors \cup {"invalid root entry count"} :
           ~Is(ret.err, msg)
\* What holds of the code: NewSkipChecks returns the error of none of the
\* seven checks before the count of clusters.
C18_SkipsChecksBeforeCount ==
    ret.op = "NewSkipChecks" => \A msg \in StructuralErrors : ~Is(ret.err, msg)

\* C19 as claimed: New and NewSkipChecks return a volume or an error value
\* for every sector 0; none aborts.
C19_MountReturns == ret.op \in {"New", "NewSkipChecks"} => ret.err # Panic
\* What holds of the code: New does.
C19_StrictMountReturns == ret.op = "New" => ret.err # Panic

\* The count of clusters of a sector 0 whose subtraction does not wrap, over
\* the integers.
C20_RootDirSectors ==
    (call.bpb.RootEntryCount * 32 + call.bpb.BytesPerSector - 1)
    \div call.bpb.BytesPerSector
C20_DataSectors ==
    (IF call.bpb.TotalSectors16 # 0 THEN call.bpb.TotalSectors16
     ELSE call.bpb.TotalSectors32)
    - (call.bpb.ReservedSectorCount + call.bpb.NumFATs) + C20_RootDirSectors
C20_Count == C20_DataSectors \div call.bpb.SectorsPerCluster
\* C20: a mount that gets past the structural checks, with a count of
\* clusters that does not wrap: below 4085 it is rejected with the
\* not-supported error; from 4085 on it is not, and a volume that is returned
\* is FAT16 up to 65524 and FAT32 from 65525 on.
C20_Classified ==
    (/\ ret.op \in {"New", "NewSkipChecks"}
     /\ call.bpb.BytesPerSector # 0 /\ call.bpb.SectorsPerCluster # 0
     /\ ret.op = "New" => structuralChecks(call.bpb) = Nil
     /\ C20_DataSectors >= 0)
    => IF C20_Count < 4085
       THEN Is(ret.err, "ErrNotSupported")
       ELSE /\ ~Is(ret.err, "ErrNotSupported")
            /\ ret.err = Nil
               => ret.info.FSType = (IF C20_Count <= 65524 THEN "FAT16" ELSE "FAT32")
\* C20 witnesses: New returns a FAT32 volume at 65525 clusters, a FAT16
\* volume at 65524 and at 4085, and rejects 4084.
C20_Witness ==
    /\ ret.op = "New" /\ structuralChecks(call.bpb) = Nil /\ C20_Count = 65525
    /\ ret.err = Nil /\ ret.info.FSType = "FAT32"
C20_Witness65524 ==
    /\ ret.op = "New" /\ structuralChecks(call.bpb) = Nil /\ C20_Count = 65524
    /\ ret.err = Nil /\ ret.info.FSType = "FAT16"
C20_Witness4085 ==
    /\ ret.op = "New" /\ structuralChecks(call.bpb) = Nil /\ C20_Count = 4085
    /\ ret.err = Nil /\ ret.info.FSType = "FAT16"
C20_Witness4084 ==
    /\ ret.op = "New" /\ structuralChecks(call.bpb) = Nil /\ C20_Count = 4084
    /\ Is(ret.err, "ErrNotSupported") /\ Is(ret.err, "ErrOpenFilesystem")

\* C21 as claimed: the count of clusters is taken over the integers, so a
\* sector 0 whose total_sector_count + root_dir_sectors is smaller than
\* reserved_sector_count + fat_count is rejected with the not-supported error
\* by every mount that gets to the count.
C21_IntegerCount ==
    (/\ ret.op \in {"New", "NewSkipChecks"}
     /\ call.bpb.BytesPerSector # 0 /\ call.bpb.SectorsPerCluster # 0
     /\ ret.op = "New" => structuralChecks(call.bpb) = Nil
     /\ C20_DataSectors < 0)
    => Is(ret.err, "ErrNotSupported")
\* What holds of the code: such a sector 0 is never rejected with the
\* not-supported error, and the volume that is returned is FAT32.
C21_WrappedCount ==
    (/\ ret.op \in {"New", "NewSkipChecks"}
     /\ call.bpb.BytesPerSector # 0 /\ call.bpb.SectorsPerCluster # 0
     /\ ret.op = "New" => structuralChecks(call.bpb) = Nil
     /\ C20_DataSectors < 0)
    => /\ ~Is(ret.err, "ErrNotSupported")
       /\ ret.err = Nil => ret.info.FSType = "FAT32"

\* C22 as claimed: a volume returned by New or NewSkipChecks has
\* root_entry_count = 0 when it is FAT32 and, when it is FAT16, a
\* root_entry_count whose 32-fold, over the integers, is a multiple of
\* bytes_per_sector.
C22_RootEntryCount ==
    (ret.op \in {"New", "NewSkipChecks"} /\ ret.err = Nil)
    => /\ ret.info.FSType = "FAT32" => ret.info.RootEntryCount = 0
       /\ ret.info.FSType = "FAT16"
          => (ret.info.RootEntryCount * 32) % ret.info.BytesPerSector = 0
\* What holds of the code: the same of the volumes that New returns, and of
\* those of NewSkipChecks with the 32-fold taken modulo 65536.
C22_RootEntryCountModulo ==
    (ret.op \in {"New", "NewSkipChecks"} /\ ret.err = Nil)
    => /\ ret.info.FSType = "FAT32" => ret.info.RootEntryCount = 0
       /\ ret.info.FSType = "FAT16"
          => IF ret.op = "New"
             THEN (ret.info.RootEntryCount * 32) % ret.info.BytesPerSector = 0
             ELSE ((ret.info.RootEntryCount * 32) % Uint16)
                  % ret.info.BytesPerSector = 0


(***************************** fatEntry ************************************)
\* The 32 bit entries classified: the 28 bit values at both ends of every
\* range, under every setting of the upper four bits.  An entry of 2^31 or
\* more is written as its two's complement, which leaves its low 28 bits.
Values28 ==
    {0, 1, 2, 3, 268435438, 268435439, 268435440, 268435441, 268435444,
     268435445, 268435446, 268435447, 268435448, 268435449, 268435454,
     268435455}
UpperBits == 0..15
entryOf(v, k) == IF k < 8 THEN v + k * Low28 ELSE v + (k - 16) * Low28
InitFat ==
    /\ fs = IdleFs
    /\ \E v \in Values28, k \in UpperBits :
           call = [op |-> "fatEntry", v |-> v, k |-> k, e |-> entryOf(v, k)]
    /\ ret = NoRet
    /\ fat = << >>
    /\ bad = {}
    /\ sectorCache = SentinelCache
    /\ file = [firstCluster |-> 0, size |-> 0]
    /\ handle = NoHandle
    /\ dir = << >>
    /\ listing = NoListing
    /\ slots = << >>
Classify ==
    /\ call.op = "fatEntry"
    /\ ret' = [op |-> "fatEntry", IsFree |-> IsFree(call.e),
               ReadAsNextCluster |-> ReadAsNextCluster(call.e),
               ReadAsEOF |-> ReadAsEOF(call.e),
               kinds |-> {k \in {"ReservedTemp", "Next", "ReservedSometimes",
                                  "Reserved", "Bad", "EOF"} :
                             \/ k = "ReservedTemp" /\ IsReservedTemp(call.e)
                             \/ k = "Next" /\ IsNextCluster(call.e)
                             \/ k = "ReservedSometimes" /\ IsReservedSometimes(call.e)
                             \/ k = "Reserved" /\ IsReserved(call.e)
                             \/ k = "Bad" /\ IsBad(call.e)
                             \/ k = "EOF" /\ IsEOF(call.e)}]
    /\ UNCHANGED <<fs, fat, bad, sectorCache, file, call, handle, dir, listing, slots>>
NextFat == Classify
SpecFat == InitFat /\ [][NextFat]_vars

\* The class of a 28 bit value as the claim lists them.
ClassOf(v) ==
    IF v = 0 THEN "free"
    ELSE IF v = 1 \/ (v >= 268435448 /\ v <= 268435455) THEN "eof"
    ELSE "next"
KindOf(v) ==
    IF v = 0 THEN {}
    ELSE IF v = 1 THEN {"ReservedTemp"}
    ELSE IF v <= 268435439 THEN {"Next"}
    ELSE IF v <= 268435445 THEN {"ReservedSometimes"}
    ELSE IF v = 268435446 THEN {"Reserved"}
    ELSE IF v = 268435447 THEN {"Bad"}
    ELSE {"EOF"}
\* C23: whatever the upper four bits of an entry, exactly one of IsFree,
\* ReadAsEOF and ReadAsNextCluster holds, the one that the low 28 bits stand
\* for: 0 free; 1 and 0x0FFFFFF8..0x0FFFFFFF end of chain; every other value
\* next cluster, as Next, ReservedSometimes, Reserved or Bad.
C23_Classification ==
    ret.op = "fatEntry"
    => /\ ret.IsFree <=> ClassOf(call.v) = "free"
       /\ ret.ReadAsEOF <=> ClassOf(call.v) = "eof"
       /\ ret.ReadAsNextCluster <=> ClassOf(call.v) = "next"
       /\ ret.kinds = KindOf(call.v)
\* C23 witness: the entry 0xF0000000, whose low 28 bits are 0, is free and
\* nothing else.
C23_Witness ==
    /\ ret.op = "fatEntry" /\ call.v = 0 /\ call.k = 15
    /\ ret.IsFree /\ ~ret.ReadAsEOF /\ ~ret.ReadAsNextCluster


(***************************** fetch, step by step *************************)
\* Fs.fetch as the steps of the goroutines that call it on one mounted
\* volume: the mutex, the seek, the read and the cache update.  The sector
\* sizes are scaled like BytesPerSector: 2 stands for 512, 4 for 1024.
MountSectorSize == 2
SectorSizes == {2, 4}
SourceLens == {5, 8}
MaxSector == 3
Procs == {1, 2}
\* The byte of the source at position p; never 0, the value make() leaves.
SourceAt(p) == p + 1
\* make([]byte, n)
MakeBytes(n) == [j \in 1..n |-> 0]
\* io.Seeker.Seek(offset, io.SeekStart) of the source, for the sector asked.
readerSeek(sectorNum) == IF <<"seek", sectorNum>> \in bad THEN <<"EIO">> ELSE Nil
\* io.Reader.Read(buffer) of the source standing at pos: at the end 0 bytes
\* and io.EOF, else as many bytes as are left, up to the buffer's length.
readerRead(sectorNum, pos, buffer, end) ==
    IF <<"read", sectorNum>> \in bad THEN [n |-> 0, buffer |-> buffer, err |-> <<"EIO">>]
    ELSE IF pos >= end THEN [n |-> 0, buffer |-> buffer, err |-> EOF]
    ELSE [n |-> Min(Len(buffer), end - pos),
          buffer |-> [j \in 1..Len(buffer) |->
                         IF pos + j - 1 < end THEN SourceAt(pos + j - 1) ELSE buffer[j]],
          err |-> Nil]
canLockHeld(holder) == TRUE
\* f.lock.Lock() returns when no goroutine holds the mutex.
canLock(holder) == holder = 0
fetchNeverHit(cache, sectorNum) == FALSE
\* if sectorNum == f.sectorCache.current
fetchHit(cache, sectorNum) == sectorNum = cache.current
IdleCall == [pc |-> "idle", sectorNum |-> 0, buffer |-> << >>]
\* What initialize leaves in the cache: the sector 0 read with the
\* provisional sector size.
MountCache(end) ==
    [current |-> 0, buffer |-> readerRead(0, 0, MakeBytes(MountSectorSize), end).buffer]
InitFetch ==
    /\ bad \in {{}, {<<"seek", 1>>}, {<<"read", 1>>}}
    /\ \E bps \in SectorSizes, end \in SourceLens :
           /\ fs = [lock |-> 0, pos |-> MountSectorSize, BytesPerSector |-> bps,
                    end |-> end]
           /\ sectorCache = MountCache(end)
    /\ call = [p \in Procs |-> IdleCall]
    /\ ret = [p \in Procs |-> NoRet]
    /\ fat = << >>
    /\ file = [firstCluster |-> 0, size |-> 0]
    /\ handle = NoHandle
    /\ dir = << >>
    /\ listing = NoListing
    /\ slots = << >>
\* The return of a fetch: the deferred Unlock and the result.
fetchReturn(p, sector, err) ==
    /\ ret' = [ret EXCEPT ![p] = [op |-> "fetch", sectorNum |-> call[p].sectorNum,
                                  sector |-> sector, err |-> err]]
    /\ call' = [call EXCEPT ![p] = IdleCall]
\* A goroutine calls fetch and stands at f.lock.Lock().
FetchCall(p) ==
    /\ call[p].pc = "idle"
    /\ \E sectorNum \in 0..MaxSector :
           call' = [call EXCEPT ![p] = [pc |-> "calling", sectorNum |-> sectorNum,
                                        buffer |-> << >>]]
    /\ ret' = [ret EXCEPT ![p] = NoRet]
    /\ UNCHANGED <<fs, fat, bad, sectorCache, file, handle, dir, listing, slots>>
FetchLock(p) ==
    /\ call[p].pc = "calling"
    /\ canLock(fs.lock)
    /\ call' = [call EXCEPT ![p].pc = "locked",
                            ![p].buffer = MakeBytes(fs.BytesPerSector)]
    /\ fs' = [fs EXCEPT !.lock = p]
    /\ UNCHANGED <<fat, bad, sectorCache, file, handle, ret, dir, listing, slots>>
FetchCached(p) ==
    /\ call[p].pc = "locked"
    /\ fetchHit(sectorCache, call[p].sectorNum)
    /\ fetchReturn(p, sectorCache, Nil)
    /\ fs' = [fs EXCEPT !.lock = 0]
    /\ UNCHANGED <<fat, bad, sectorCache, file, handle, dir, listing, slots>>
FetchSeek(p) ==
    /\ call[p].pc = "locked"
    /\ ~fetchHit(sectorCache, call[p].sectorNum)
    /\ IF readerSeek(call[p].sectorNum) # Nil
       THEN /\ fetchReturn(p, EmptySector,
                           Wrap(readerSeek(call[p].sectorNum), "ErrFetchingSector"))
            /\ fs' = [fs EXCEPT !.lock = 0]
       ELSE /\ call' = [call EXCEPT ![p].pc = "sought"]
            /\ fs' = [fs EXCEPT !.pos = call[p].sectorNum * fs.BytesPerSector]
            /\ ret' = ret
    /\ UNCHANGED <<fat, bad, sectorCache, file, handle, dir, listing, slots>>
FetchRead(p) ==
    /\ call[p].pc = "sought"
    /\ LET r == readerRead(call[p].sectorNum, fs.pos, call[p].buffer, fs.end)
       IN  IF r.err # Nil
           THEN /\ fetchReturn(p, EmptySector, Wrap(r.err, "ErrFetchingSector"))
                /\ fs' = [fs EXCEPT !.lock = 0]
                /\ sectorCache' = sectorCache
           ELSE /\ fetchReturn(p, [current |-> call[p].sectorNum, buffer |-> r.buffer],
                               Nil)
                /\ fs' = [fs EXCEPT !.lock = 0, !.pos = fs.pos + r.n]
                /\ sectorCache' = [current |-> call[p].sectorNum, buffer |-> r.buffer]
    /\ UNCHANGED <<fat, bad, file, handle, dir, listing, slots>>
NextFetch ==
    \E p \in Procs :
        \/ FetchCall(p) \/ FetchLock(p) \/ FetchCached(p)
        \/ FetchSeek(p) \/ FetchRead(p)
SpecFetch == InitFetch /\ [][NextFetch]_vars


\* The bytes [n * bytes_per_sector, (n + 1) * bytes_per_sector) of the source.
SectorBytes(sectorNum) ==
    [j \in 1..fs.BytesPerSector |-> SourceAt(sectorNum * fs.BytesPerSector + j - 1)]
WithinSource(sectorNum) == (sectorNum + 1) * fs.BytesPerSector <= fs.end
\* C24: on a mounted volume every successful fetch(n) returns exactly
\* bytes_per_sector bytes, the source bytes of the sector n, for every n, 0
\* included, and every sector size; when the seek fails or the source delivers
\* fewer bytes, fetch returns a fetch-sector error.
C24_FetchedSector ==
    \A p \in Procs :
        ret[p].op = "fetch"
        => IF ret[p].err = Nil
           THEN /\ WithinSource(ret[p].sectorNum)
                /\ ret[p].sector.buffer = SectorBytes(ret[p].sectorNum)
           ELSE Is(ret[p].err, "ErrFetchingSector")
\* C24, what holds: a successful fetch of a sector that lies within the source
\* returns its bytes unless it is answered from the sector 0 that the mount
\* cached with the provisional size; a failing seek or read that is not the
\* end of the source gives a fetch-sector error.
C24_WholeSectors ==
    \A p \in Procs :
        ret[p].op = "fetch"
        => /\ ( /\ ret[p].err = Nil
                /\ WithinSource(ret[p].sectorNum)
                /\ ret[p].sector.buffer # MountCache(fs.end).buffer )
              => ret[p].sector.buffer = SectorBytes(ret[p].sectorNum)
           /\ ( \E kind \in {"seek", "read"} : <<kind, ret[p].sectorNum>> \in bad )
              => Is(ret[p].err, "ErrFetchingSector")
\* C24: the sector 0 fetched right after a mount with the larger sector size.
C24_MountSector ==
    \A p \in Procs :
        ( ret[p].op = "fetch" /\ ret[p].sectorNum = 0 /\ ret[p].err = Nil )
        => Len(ret[p].sector.buffer) = fs.BytesPerSector
\* C24: a read at the end of the source that delivers fewer bytes.
C24_ShortRead ==
    \A p \in Procs :
        ( ret[p].op = "fetch" /\ ~WithinSource(ret[p].sectorNum) )
        => ret[p].err # Nil


\* What the source delivers for a sector read on its own.
Delivered(sectorNum) ==
    readerRead(sectorNum, sectorNum * fs.BytesPerSector,
               MakeBytes(fs.BytesPerSector), fs.end)
\* A sector as a fetch running alone returns it: read from the source, or the
\* sector 0 that the mount left in the cache.
OwnSector(sector, sectorNum) ==
    /\ sector.current = sectorNum
    /\ \/ Delivered(sectorNum).err = Nil /\ sector.buffer = Delivered(sectorNum).buffer
       \/ sectorNum = 0 /\ sector = MountCache(fs.end)
\* C25: when several goroutines call fetch on one volume with different sector
\* numbers, each call returns the content of the sector it asked for: one
\* call's seek, read and cache update are never interleaved with another's, so
\* the reader stands where the reading call put it and the cache holds the
\* sector of its index.
C25_EachCallItsSector ==
    /\ \A p \in Procs :
           /\ ( ret[p].op = "fetch" /\ ret[p].err = Nil )
              => OwnSector(ret[p].sector, ret[p].sectorNum)
           /\ ( ret[p].op = "fetch" /\ ret[p].err # Nil )
              => \/ readerSeek(ret[p].sectorNum) # Nil
                 \/ Delivered(ret[p].sectorNum).err # Nil
           /\ call[p].pc = "sought"
              => fs.pos = call[p].sectorNum * fs.BytesPerSector
           /\ call[p].pc \in {"locked", "sought"}
              => \A q \in Procs \ {p} : call[q].pc \in {"idle", "calling"}
    /\ OwnSector(sectorCache, sectorCache.current)
\* C25 witness: one goroutine has moved the reader to its sector and not yet
\* read, another one has called fetch for a different sector and has returned
\* nothing yet.
C25_Witness ==
    /\ call[1].pc = "sought" /\ call[1].sectorNum = 1
    /\ call[2].pc = "calling" /\ call[2].sectorNum = 2
    /\ ret[2] = NoRet /\ fs.lock = 1 /\ fs.pos = fs.BytesPerSector
\* C25 witness: both goroutines have returned, each the sector it asked for.
C25_WitnessReturned ==
    /\ ret[1].op = "fetch" /\ ret[1].sectorNum = 1 /\ ret[1].err = Nil
    /\ ret[2].op = "fetch" /\ ret[2].sectorNum = 2 /\ ret[2].err = Nil
    /\ ret[1].sector.buffer # ret[2].sector.buffer


\* C27: a fetch(n) whose n is the cached index performs no seek and no read
\* (the reader stays where it stood), returns the cached sector and leaves the
\* cache unchanged; a fetch that fails leaves the cached index and buffer as
\* they were.
C27_HitAndFailureKeepCache ==
    [][\A p \in Procs :
           /\ ( /\ call[p].pc = "locked"
                /\ call[p].sectorNum = sectorCache.current
                /\ call'[p] # call[p] )
              => /\ fs'.pos = fs.pos
                 /\ sectorCache' = sectorCache
                 /\ ret'[p].op = "fetch"
                 /\ ret'[p].err = Nil
                 /\ ret'[p].sector = sectorCache
           /\ ( /\ ret'[p] # ret[p]
                /\ ret'[p].op = "fetch"
                /\ ret'[p].err # Nil )
              => sectorCache' = sectorCache]_vars
\* C27 witness: both goroutines have got the sector 1, which is the cached one,
\* so the later of the two calls was answered from the cache.
C27_Witness ==
    /\ \A p \in Procs :
           /\ ret[p].op = "fetch" /\ ret[p].sectorNum = 1 /\ ret[p].err = Nil
           /\ ret[p].sector = sectorCache
    /\ sectorCache.current = 1
    /\ fs.lock = 0
\* C27 witness: a fetch of the sector 1 has failed on a volume whose cache holds
\* the sector 2.
C27_WitnessFailed ==
    /\ ret[1].op = "fetch" /\ ret[1].sectorNum = 1 /\ ret[1].err # Nil
    /\ ret[2].op = "fetch" /\ ret[2].sectorNum = 2 /\ ret[2].err = Nil
    /\ sectorCache = ret[2].sector


(***************************** two handles on one volume *******************)
\* The handle at hand next to another handle of the same volume.  An operation
\* on the other handle reaches the state this handle shares with it, the
\* sector cache, through fetch only: each of its fetches is a step.
OtherHandle ==
    /\ \E sectorNum \in 0..TotalSectorCount :
           sectorCache' = fetch(sectorCache, sectorNum).cache
    /\ sectorCache' # sectorCache
    /\ UNCHANGED <<fs, fat, bad, file, call, handle, ret, dir, listing, slots>>
NextShared ==
    \/ Open \/ Read \/ ReadAt \/ Seek \/ Readdir \/ OtherHandle
\* The volumes of Init whose file has one cluster, with and without a failing
\* sector.
InitShared == Init /\ fat = FatWithDir(<<2>>, FreeCluster(<<2>>))
SpecShared == InitShared /\ [][NextShared]_vars
\* The handle as it was before its last operation, which moved its offset only.
HandleBefore == [handle EXCEPT !.offset = ret.before]
\* The results of the last operation of this handle had no other handle
\* touched the cache since the mount.
AloneRead == fileRead(BootCache, HandleBefore, ret.len)
AloneReadAt == fileReadAt(BootCache, HandleBefore, ret.len, ret.off)
AloneReaddir == fileReaddir(BootCache, HandleBefore, ret.count)
AloneSeek == fileSeek(HandleBefore, ret.off, ret.whence)
\* C26: with two handles on one volume over an unchanging source, the bytes,
\* errors and offsets that Read, ReadAt, Seek and Readdir produce on one handle
\* are the same whatever the other handle did in between: they are those of
\* the handle used alone, whatever sector the shared cache held.
C26_CacheNeverShows ==
    /\ ret.op = "Read"
       => /\ ret.n = AloneRead.n /\ ret.p = AloneRead.p
          /\ ret.err = AloneRead.err /\ handle.offset = AloneRead.offset
    /\ ret.op = "ReadAt"
       => /\ ret.n = AloneReadAt.n /\ ret.p = AloneReadAt.p
          /\ ret.err = AloneReadAt.err /\ handle.offset = ret.before
    /\ ret.op = "Readdir"
       => /\ ret.entries = AloneReaddir.entries
          /\ ret.err = AloneReaddir.err /\ handle.offset = AloneReaddir.offset
    /\ ret.op = "Seek"
       => /\ ret.pos = AloneSeek.pos /\ ret.err = AloneSeek.err
          /\ handle.offset = AloneSeek.offset
\* C26 witness: this handle has read bytes of its file past the offset 0 and
\* the cache holds the sector 0, which no operation of this handle fetches:
\* the other handle has been at the cache since this one was opened.
C26_Witness ==
    /\ handle.open /\ ~handle.isDirectory
    /\ ret.op = "Read" /\ ret.n > 0 /\ ret.before > 0 /\ ret.err = Nil
    /\ sectorCache.current = 0


(***************************** claims on long-name runs ********************)
\* A long-name slot that is not deleted and does not read as a dot entry or
\* as the end of the directory.
IsLiveLfn(slot) ==
    IsLfnSlot(slot) /\ slot.name[1] # 229 /\ slot.name[1] # 0 /\ slot.name[1] # 46
\* The directory d is one or more such slots, none but the first with the
\* start bit 0x40, and then a short entry that is emitted and whose name does
\* not start with the escape 0x05.
IsLfnRunBeforeShort(d) ==
    /\ Len(d) >= 2
    /\ Surfaced(d[Len(d)]) /\ d[Len(d)].name[1] # 0 /\ d[Len(d)].name[1] # 5
    /\ \A i \in 1..(Len(d) - 1) : IsLiveLfn(d[i])
    /\ \A i \in 2..(Len(d) - 1) : ~BitSet(d[i].name[1], 64)
\* Counting k from the slot nearest the short entry, the low 5 bits of the
\* k-th sequence byte are k.
Low5Ordinals(d) == \A i \in 1..(Len(d) - 1) : d[i].name[1] % 32 = Len(d) - i
Low4Ordinals(d) == \A i \in 1..(Len(d) - 1) : d[i].name[1] % 16 = Len(d) - i
\* C28: a long name is accepted only if the low 5 bits of the k-th slot's
\* sequence byte equal k, counted from the slot nearest the short entry, for
\* runs of 1 to 20 slots: a valid run of 16 to 20 slots yields its long name,
\* and a slot with the ordinal 17 is not accepted in position 1.
C28_FiveBitOrdinals ==
    (listing.done /\ IsLfnRunBeforeShort(dir) /\ WrongChecksums(dir) = {}
     /\ Len(dir) - 1 <= 20)
    => /\ Len(listing.directory) = 1
       /\ IF Low5Ordinals(dir)
          THEN listing.directory[1].ExtendedName = LongNameOf(dir)
          ELSE listing.directory[1].ExtendedName = << >>
\* C28, what holds: the sequence bytes are compared in their low 4 bits, so
\* the runs of up to 15 slots whose low 4 bits count 1, 2, ... are accepted and
\* no other run is.
C28_FourBitOrdinals ==
    (listing.done /\ IsLfnRunBeforeShort(dir) /\ WrongChecksums(dir) = {})
    => /\ Len(listing.directory) = 1
       /\ IF Low4Ordinals(dir)
          THEN listing.directory[1].ExtendedName = LongNameOf(dir)
          ELSE listing.directory[1].ExtendedName = << >>
\* C28: the slot with the sequence byte 17 in position 1.
C28_Ordinal17 ==
    (listing.done /\ IsLfnRunBeforeShort(dir) /\ Len(dir) = 2
     /\ dir[1].name[1] % 64 = 17)
    => listing.directory[1].ExtendedName = << >>
\* C28: the valid runs of 16 slots.
C28_SixteenSlots ==
    (listing.done /\ IsLfnRunBeforeShort(dir) /\ Low5Ordinals(dir)
     /\ WrongChecksums(dir) = {} /\ Len(dir) = 17 /\ dir[1].name[1] >= 64)
    => listing.directory[1].ExtendedName = LongNameOf(dir)


\* C29: a long name is accepted only if the physically first slot of its run,
\* the one with the highest ordinal, has the start bit 0x40 in its sequence
\* byte; a run whose first slot lacks it is discarded and the short entry is
\* emitted with its short name, even when checksums and ordinals are right.
C29_StartBitRequired ==
    (listing.done /\ IsLfnRunBeforeShort(dir) /\ ~BitSet(dir[1].name[1], 64))
    => /\ Len(listing.directory) = 1
       /\ listing.directory[1].ExtendedName = << >>
       /\ Name(listing.directory[1]) = shortName(dir[Len(dir)].name)
\* C29, what holds: a run at the start of the directory whose first slot lacks
\* the start bit is accepted like one that has it, when its checksums are right
\* and its ordinals count 1, 2, ... in their low 4 bits.
C29_AcceptedWithoutStartBit ==
    (listing.done /\ IsLfnRunBeforeShort(dir) /\ ~BitSet(dir[1].name[1], 64)
     /\ WrongChecksums(dir) = {} /\ Low4Ordinals(dir))
    => /\ Len(listing.directory) = 1
       /\ listing.directory[1].ExtendedName = LongNameOf(dir)
       /\ listing.directory[1].ExtendedName # << >>


\* The slot of d that the j-th emitted entry comes from.
SurfacedUpTo(d, i) ==
    Cardinality({k \in 1..i : k < EndIndex(d) /\ Surfaced(d[k])})
SlotOfEntry(d, j) ==
    CHOOSE i \in 1..Len(d) :
        i < EndIndex(d) /\ Surfaced(d[i]) /\ SurfacedUpTo(d, i) = j
\* The characters of the slots a..(s - 1) of d, from the slot s - 1 outwards.
BlockChars(d, a, s) ==
    [j \in 1..(13 * (s - a)) |->
        SlotChars(d[s - 1 - ((j - 1) \div 13)])[((j - 1) % 13) + 1]]
\* C30: a pending run of long-name slots is attached only to the short entry
\* in the slot directly after the run's last slot: a short entry that follows
\* a deleted slot, a dot entry, a volume-id entry or a rejected long-name slot
\* is emitted without a long name, and no later entry gets characters of that
\* run.  Every long name is spelled by the live long-name slots that end
\* directly before the entry's own slot.
C30_OnlyDirectlyAfter ==
    listing.done
    => \A j \in 1..Len(listing.directory) :
           listing.directory[j].ExtendedName # << >>
           => \E a \in 1..(SlotOfEntry(dir, j) - 1) :
                  /\ \A i \in a..(SlotOfEntry(dir, j) - 1) : IsLiveLfn(dir[i])
                  /\ listing.directory[j].ExtendedName
                         = renderChars(BlockChars(dir, a, SlotOfEntry(dir, j)))
\* C30 witness: a run of two slots with right ordinals and checksums, a
\* volume-id entry, and two short entries of the run's checksum, both emitted
\* without a long name.
C30_Witness ==
    /\ listing.done /\ Len(dir) = 5
    /\ IsLiveLfn(dir[1]) /\ BitSet(dir[1].name[1], 64) /\ IsLiveLfn(dir[2])
    /\ WrongChecksums(<<dir[1], dir[2], dir[4]>>) = {}
    /\ BitSet(dir[3].attr, AttrVolumeId) /\ ~IsLfnSlot(dir[3])
    /\ Len(listing.directory) = 2
    /\ listing.directory[1].ExtendedName = << >>
    /\ listing.directory[2].ExtendedName = << >>
\* C30 witness: the slot between the run and the short entry is a deleted
\* long-name slot.
C30_WitnessRejectedSlot ==
    /\ listing.done /\ Len(dir) = 5
    /\ IsLiveLfn(dir[1]) /\ IsLiveLfn(dir[2])
    /\ IsLfnSlot(dir[3]) /\ dir[3].name[1] = 229
    /\ Len(listing.directory) = 2
    /\ listing.directory[1].ExtendedName = << >>
    /\ listing.directory[2].ExtendedName = << >>


(***************************** getFatEntry on FAT16 and FAT32 **************)
\* getFatEntry on a volume of either type whose first FAT holds one drawn
\* entry among filler entries.  The sector has 8 bytes here: four FAT16
\* entries or two FAT32 entries.
EntrySectorSize == 8
EntryClusters == 0..5
\* The little-endian bytes of the 28 bit value v under the upper bits k.
Bytes16(v) == <<v % 256, v \div 256>>
Bytes32(v, k) ==
    <<v % 256, (v \div 256) % 256, (v \div 65536) % 256, (v \div 16777216) + 16 * k>>
Stored16 == {Bytes16(v) : v \in {0, 1, 2, 65519, 65520, 65526, 65527, 65528, 65535}}
Stored32 ==
    {Bytes32(v, k) : v \in {0, 1, 2, 65528, 268435439, 268435440, 268435447,
                           268435448, 268435455},
                     k \in {0, 15}}
\* The first FAT as bytes: the entry bytes at the place of cluster, the
\* filler 0xAA elsewhere.
FatBytes(cluster, bytes) ==
    [p \in 0..((Len(bytes) * 6) - 1) |->
        IF p \div Len(bytes) = cluster THEN bytes[(p % Len(bytes)) + 1]
        ELSE 170]
\* The sector sectorNum of the source: the FAT starts after the reserved
\* sectors.
FatSector(sectorNum) ==
    [j \in 1..fs.BytesPerSector |->
        LET p == (sectorNum - ReservedSectorCount) * fs.BytesPerSector + j - 1
        IN  IF p \in DOMAIN fat THEN fat[p] ELSE 0]
InitEntry ==
    /\ \E type \in {"FAT16", "FAT32"}, cluster \in EntryClusters :
           /\ fs = [IdleFs EXCEPT !.FSType = type,
                                  !.BytesPerSector = EntrySectorSize]
           /\ \E bytes \in (IF type = "FAT16" THEN Stored16 ELSE Stored32) :
                  /\ fat = FatBytes(cluster, bytes)
                  /\ call = [op |-> "getFatEntry", cluster |-> cluster,
                             bytes |-> bytes]
    /\ ret = NoRet
    /\ bad = {}
    /\ sectorCache = SentinelCache
    /\ file = [firstCluster |-> 0, size |-> 0]
    /\ handle = NoHandle
    /\ dir = << >>
    /\ listing = NoListing
    /\ slots = << >>
GetFatEntry ==
    /\ call.op = "getFatEntry"
    /\ LET fatOffset == fatOffsetOf(call.cluster)
           fatSectorNumber == ReservedSectorCount + (fatOffset \div fs.BytesPerSector)
           sector == [current |-> fatSectorNumber,
                      buffer |-> FatSector(fatSectorNumber)]
           r == fatEntryOf([sector |-> sector, err |-> Nil, cache |-> sector],
                           fatOffset % fs.BytesPerSector)
       IN  /\ ret' = [op |-> "getFatEntry", sectorNum |-> fatSectorNumber,
                      entry |-> r.entry, err |-> r.err]
           /\ sectorCache' = r.cache
    /\ call' = [call EXCEPT !.op = "done"]
    /\ UNCHANGED <<fs, fat, bad, file, handle, dir, listing, slots>>
NextEntry == GetFatEntry
SpecEntry == InitEntry /\ [][NextEntry]_vars

\* The 16 bit value and the low 28 bits of the 32 bit value stored in the
\* drawn entry.
Raw16 == call.bytes[1] + 256 * call.bytes[2]
Raw28 ==
    call.bytes[1] + 256 * call.bytes[2] + 65536 * call.bytes[3]
    + 16777216 * (call.bytes[4] % 16)
\* C31: on FAT16 getFatEntry reads the 16 bit little-endian entry at the byte
\* offset cluster * 2 of the first FAT and returns raw | 0x0FFFF000 for raw in
\* 0xFFF0..0xFFFF and raw otherwise, so 0xFFF8..0xFFFF read as end of chain,
\* 0xFFF7 as Bad and 0x0002..0xFFEF as next cluster; on FAT32 it returns the
\* 32 bit entry at cluster * 4 masked with 0x0FFFFFFF.
C31_FatEntry ==
    ret.op = "getFatEntry"
    => /\ ret.err = Nil
       /\ IF FSType = "FAT16"
          THEN /\ ret.entry = (IF Raw16 >= 65520 THEN 268369920 + Raw16 ELSE Raw16)
               /\ Raw16 >= 65528 => ReadAsEOF(ret.entry)
               /\ Raw16 = 65527 => IsBad(ret.entry) /\ ~ReadAsEOF(ret.entry)
               /\ (Raw16 >= 2 /\ Raw16 <= 65519)
                  => IsNextCluster(ret.entry) /\ ReadAsNextCluster(ret.entry)
          ELSE ret.entry = Raw28
\* C31 witness: the FAT16 entry 0xFFF8 of the cluster 5, which lies in the
\* second sector of the FAT, read as the end of chain 0x0FFFFFF8.
C31_Witness ==
    /\ ret.op = "getFatEntry" /\ FSType = "FAT16"
    /\ call.cluster = 5 /\ Raw16 = 65528
    /\ ret.sectorNum = ReservedSectorCount + 1
    /\ ret.entry = 268435448 /\ ReadAsEOF(ret.entry)
\* C31 witness: the FAT32 entry 0xFFFFFFF7 read as 0x0FFFFFF7.
C31_Witness32 ==
    /\ ret.op = "getFatEntry" /\ FSType = "FAT32"
    /\ call.cluster = 3 /\ call.bytes = <<247, 255, 255, 255>>
    /\ ret.entry = 268435447 /\ IsBad(ret.entry)


(***************************** readFileAt past the first cluster ***********)
\* readFileAt called at offsets that lie past the first cluster, so that the
\* first loop has clusters to skip, on volumes where the FAT sector of one
\* cluster may fail.
FatSectorOf(c) == ReservedSectorCount + (fatOffsetOf(c) \div BytesPerSector)
SkipReadSizes == {-1, 0, 1, ClusterSize, MaxBytes + 2}
InitSkip ==
    /\ fs = IdleFs
    /\ bad \in {{}} \cup {{FatSectorOf(c)} : c \in Clusters}
    /\ InitVolume
    /\ \E offset \in (ClusterSize + 1)..(MaxBytes + 1), readSize \in SkipReadSizes :
           call = [op |-> "pending", offset |-> offset, readSize |-> readSize,
                   data |-> << >>, err |-> Nil]
    /\ handle = NoHandle
    /\ ret = NoRet
    /\ dir = << >>
    /\ listing = NoListing
    /\ slots = << >>
SpecSkip == InitSkip /\ [][NextRead]_vars

\* The clusters the first loop has to pass before the one that covers offset.
ClustersToSkip(offset) ==
    IF offset <= ClusterSize THEN 0 ELSE (offset - 1) \div ClusterSize
\* How the first loop ends when it has n clusters to pass from the cluster c.
RECURSIVE SkipOutcome(_, _)
SkipOutcome(c, n) ==
    IF n = 0 THEN "reached"
    ELSE IF FatSectorOf(c) \in bad THEN "fat error"
    ELSE IF fat[c] < 2 \/ fat[c] > 65519 THEN "chain end"
    ELSE SkipOutcome(fat[c], n - 1)
SkipEnded == SkipOutcome(file.firstCluster, ClustersToSkip(call.offset))
\* The bytes left from offset to the file size, the unknown size taken as
\* offset.
LeftAfterOffset == IF file.size < 0 THEN 0 ELSE file.size - call.offset
C32_WitnessChainEnd ==
    /\ call.op = "readFileAt" /\ SkipEnded = "chain end"
    /\ call.offset = ClusterSize + 1 /\ file.size = ClusterSize + 2
    /\ call.readSize = ClusterSize
    /\ call.data = << >> /\ call.err = EOF


(***************************** reads to the end of the file ****************)
\* C33: readFileAt with readSize <= 0 and a known file size returns, for every
\* offset in [0, fileSize] and a well-formed chain, exactly the file bytes
\* [offset, fileSize): fileSize - offset bytes and none at or after fileSize.
C33_RestOfFile ==
    (call.op = "readFileAt" /\ WellFormed /\ call.readSize <= 0
     /\ call.offset <= file.size)
    => call.data = FileBytes(chainOf(file.firstCluster), call.offset, file.size)
\* C33 at offset 0: there the result is exactly the bytes of the file.
C33_FromStart == call.offset = 0 => C33_RestOfFile


(***************************** readFileAt on a failing source **************)
\* readFileAt called at offsets up to the end of the first cluster on volumes
\* where one sector of the FAT or of the data area may fail, and where the
\* chain may lead to a cluster that lies after the end of the source.
FailMarks == {65535, MaxCluster + 1}
FailSizes == {-1, 0, 1, ClusterSize + 1, MaxBytes}
InitFail ==
    /\ fs = IdleFs
    /\ bad \in {{}} \cup {{s} : s \in 1..(TotalSectorCount - 1)}
    /\ \E ch \in Chains, mark \in FailMarks, size \in FailSizes :
           /\ fat = FatOf(ch, mark)
           /\ file = [firstCluster |-> ch[1], size |-> size]
    /\ sectorCache = BootCache
    /\ \E offset \in 0..ClusterSize, readSize \in SkipReadSizes :
           call = [op |-> "pending", offset |-> offset, readSize |-> readSize,
                   data |-> << >>, err |-> Nil]
    /\ handle = NoHandle
    /\ ret = NoRet
    /\ dir = << >>
    /\ listing = NoListing
    /\ slots = << >>
SpecFail == InitFail /\ [][NextRead]_vars

\* The sector i of the cluster c.
DataSector(c, i) == (c - 2) * SectorsPerCluster + FirstDataSector + i
\* The first cluster is read from the sector of offset on without a failure,
\* gives at least one byte, and the read has to go on to the next cluster.
FirstClusterRead ==
    /\ call.offset < ClusterSize
    /\ \A i \in (call.offset \div BytesPerSector)..(SectorsPerCluster - 1) :
           SourceErr(DataSector(file.firstCluster, i)) = Nil
    /\ (call.readSize <= 0 \/ ClusterSize < call.offset + call.readSize)
\* The FAT lookup of the first cluster fails after the first cluster was read.
FatLookupFails ==
    FirstClusterRead /\ SourceErr(FatSectorOf(file.firstCluster)) # Nil
\* A sector of the second cluster fails after the first cluster was read.
SecondCluster == fat[file.firstCluster]
SecondClusterFails ==
    /\ FirstClusterRead
    /\ SourceErr(FatSectorOf(file.firstCluster)) = Nil
    /\ ReadAsNextCluster(SecondCluster)
    /\ \E j \in 0..(SectorsPerCluster - 1) :
           SourceErr(DataSector(SecondCluster, j)) # Nil
FailingSector ==
    IF FatLookupFails THEN FatSectorOf(file.firstCluster)
    ELSE DataSector(SecondCluster,
             CHOOSE j \in 0..(SectorsPerCluster - 1) :
                 /\ SourceErr(DataSector(SecondCluster, j)) # Nil
                 /\ \A k \in 0..(j - 1) :
                        SourceErr(DataSector(SecondCluster, k)) = Nil)
\* The bytes accumulated when the failure happens.
Accumulated ==
    IF FatLookupFails
    THEN FileBytes(<<file.firstCluster>>, call.offset, ClusterSize)
    ELSE FileBytes(<<file.firstCluster, SecondCluster>>, call.offset,
                   ClusterSize + (FailingSector - DataSector(SecondCluster, 0))
                                 * BytesPerSector)
IsPrefixOf(a, b) == Len(a) <= Len(b) /\ a = SubSeq(b, 1, Len(a))
\* C34: when a sector fetch or a FAT lookup fails after readFileAt has
\* accumulated data, readFileAt returns the bytes read so far, a prefix of the
\* requested range that is not replaced by an empty result, with an error that
\* matches the read-filesystem-file kind and the kind of its cause: fetch-sector,
\* and read-FAT for a FAT lookup.
C34_PrefixAndKinds ==
    (call.op = "readFileAt" /\ (FatLookupFails \/ SecondClusterFails))
    => /\ IsPrefixOf(call.data, Accumulated)
       /\ (file.size < 0 \/ file.size > call.offset) => call.data # << >>
       /\ Is(call.err, "ErrReadFilesystemFile")
       /\ Is(call.err, "ErrFetchingSector")
       /\ FatLookupFails => Is(call.err, "ErrReadFat")
\* C34 for the failures that are not the end of the source.
C34_WhenNotSourceEnd ==
    ((FatLookupFails \/ SecondClusterFails) /\ FailingSector \in bad)
    => C34_PrefixAndKinds
\* The end of the source met after the first cluster is returned as the bare
\* io.EOF with the bytes of the first cluster.
C34_SourceEndIsEOF ==
    /\ call.op = "readFileAt" /\ SecondClusterFails
    /\ FailingSector >= TotalSectorCount
    /\ call.offset = 0 /\ call.readSize = MaxBytes + 2 /\ file.size = MaxBytes
    /\ call.data = FileBytes(<<file.firstCluster>>, 0, ClusterSize)
    /\ call.err = EOF


(***************************** the root directory of a mounted volume ******)
\* readDirAtSector: the number of sectors it fetches, computed in 16 bits
\* from the fields of the mounted volume.
rootDirSectorsCount(info) ==
    ((((info.RootEntryCount * 32) % Uint16) + (info.BytesPerSector - 1)) % Uint16)
    \div info.BytesPerSector
\* readRoot on FAT16: the sector it starts at.
firstRootSector(info) == info.ReservedSectorCount + (info.FatCount * info.FatSize)
\* FAT16 volumes of 5000 clusters with every sector size, one or two FATs and
\* root entry counts on both sides of 2048, where 32 times the count leaves 16
\* bits.
RootEntryCounts ==
    {0, 16, 128, 512, 1920, 2032, 2047, 2048, 2176, 4096, 32768, 65408, 65535}
RootVolumes ==
    {WithCount([Fat16Bpb EXCEPT !.BytesPerSector = bps, !.RootEntryCount = rec,
                                !.NumFATs = n],
               5000, 0) :
        bps \in {512, 1024, 2048, 4096}, rec \in RootEntryCounts, n \in {1, 2}}
InitRoot ==
    /\ fs = IdleFs
    /\ \E bpb \in RootVolumes : call = [op |-> "mount", bpb |-> bpb]
    /\ ret = NoRet
    /\ fat = << >>
    /\ bad = {}
    /\ sectorCache = SentinelCache
    /\ file = [firstCluster |-> 0, size |-> 0]
    /\ handle = NoHandle
    /\ dir = << >>
    /\ listing = NoListing
    /\ slots = << >>
\* readRoot on the volume that New returned, on a source that holds every
\* sector: the sectors readDirAtSector fetches are first, first + 1, ...,
\* count of them.
ReadRoot ==
    /\ call.op = "mount"
    /\ ret.op = "New" /\ ret.err = Nil /\ ret.info.FSType = "FAT16"
    /\ call' = [op |-> "readRoot", bpb |-> call.bpb,
                first |-> firstRootSector(ret.info),
                count |-> rootDirSectorsCount(ret.info)]
    /\ UNCHANGED <<fs, fat, bad, sectorCache, file, ret, handle, dir, listing, slots>>
NextRoot == New \/ ReadRoot
SpecRoot == InitRoot /\ [][NextRoot]_vars

\* ceil(a / b) over the integers.
CeilDiv(a, b) == (a + b - 1) \div b
\* C35: reading the root directory of a FAT16 volume fetches exactly
\* ceil(root_entry_count * 32 / bytes_per_sector) consecutive sectors starting
\* at reserved_sector_count + fat_count * fat_size_sectors, for every
\* root_entry_count in 0..65535, and that is the number of root sectors mount
\* used for first_data_sector.
C35_RootSectors ==
    call.op = "readRoot"
    => /\ call.first = call.bpb.ReservedSectorCount
                       + call.bpb.NumFATs * call.bpb.FATSize16
       /\ call.count = CeilDiv(call.bpb.RootEntryCount * 32,
                               call.bpb.BytesPerSector)
       /\ call.first + call.count = ret.info.FirstDataSector
\* C35 for the root entry counts up to (65536 - bytes_per_sector) / 32, where
\* the 16 bit sum does not wrap.
C35_WithoutWrap ==
    (call.op = "readRoot"
     /\ call.bpb.RootEntryCount * 32 + call.bpb.BytesPerSector - 1 < Uint16)
    => C35_RootSectors
\* A FAT16 volume of 2048 root entries and 512-byte sectors: mount counts 128
\* root sectors, readRoot fetches none.
C35_NoSectorOf128 ==
    /\ call.op = "readRoot"
    /\ call.bpb.RootEntryCount = 2048 /\ call.bpb.BytesPerSector = 512
    /\ ret.info.FirstDataSector - call.first = 128
    /\ call.count = 0


(***************************** readFileAt, round by round ******************)
\* readFileAt as its two loops run: one action per round of the first loop
\* and two per round of the second, the read of a cluster and the lookup of
\* the FAT, on
\* every FAT over the clusters, the FATs whose chains come back to a cluster
\* they left included.  The source has no read failures.
\* The loops count clusterNumber and grow data without limit.  No test of
\* the loops tells two values of clusterNumber from NumberCap on apart, and
\* none tells two lengths of data from DataCap on apart, so the rounds keep
\* clusterNumber at NumberCap and the first DataCap bytes of data from there.
NumberCap == 2 * MaxCluster
DataCap == MaxBytes + 2
LoopFats ==
    {[c \in 0..MaxCluster |-> IF c < 2 THEN 65535 ELSE f[c]] :
        f \in [Clusters -> {0, 65535} \cup Clusters]}
LoopSizes == {-1, 0, ClusterSize + 1}
LoopOffsets == {0, 1, ClusterSize, ClusterSize + 1, MaxBytes}
InitLoop ==
    /\ fs = IdleFs
    /\ bad = {}
    /\ fat \in LoopFats
    /\ \E c \in Clusters, size \in LoopSizes :
           file = [firstCluster |-> c, size |-> size]
    /\ sectorCache = BootCache
    /\ \E offset \in LoopOffsets, readSize \in SkipReadSizes :
           call = [op |-> "readFileAt", pc |-> "call", offset |-> offset,
                   readSize |-> readSize, cluster |-> 0, number |-> 0,
                   skip |-> 0, offsetRest |-> 0, data |-> << >>, err |-> Nil]
    /\ handle = NoHandle
    /\ ret = NoRet
    /\ dir = << >>
    /\ listing = NoListing
    /\ slots = << >>
\* return finalize(data, err)
LoopReturn(data, err, cache) ==
    /\ call' = [call EXCEPT
                   !.pc = "done",
                   !.data = finalize(data, err, file.size, call.offset,
                                     call.readSize).data,
                   !.err = finalize(data, err, file.size, call.offset,
                                    call.readSize).err]
    /\ sectorCache' = cache
\* data := make([]byte, 0); clusterNumber := 0; currentCluster := cluster
LoopEnter ==
    /\ call.pc = "call"
    /\ call' = [call EXCEPT !.pc = "skip", !.cluster = file.firstCluster]
    /\ UNCHANGED <<fs, fat, bad, sectorCache, file, handle, ret, dir, listing, slots>>
\* One round of the first loop: leave it at the cluster of offset, or go to
\* the next cluster of the chain.
LoopFindStartNext(n) ==
    IF n.err # Nil THEN LoopReturn(call.data, n.err, n.cache)
    ELSE IF ~ReadAsNextCluster(n.entry) THEN LoopReturn(call.data, Nil, n.cache)
    ELSE /\ call' = [call EXCEPT !.cluster = n.entry, !.number = call.number + 1]
         /\ sectorCache' = n.cache
LoopFindStart ==
    /\ call.pc = "skip"
    /\ IF call.number * ClusterSize <= call.offset
          /\ (call.number + 1) * ClusterSize >= call.offset
       THEN /\ call' = [call EXCEPT
                           !.pc = "read",
                           !.skip = skipOf(call.offset, call.number),
                           !.offsetRest =
                               call.offset - call.number * ClusterSize
                               - BytesPerSector * skipOf(call.offset, call.number)]
            /\ UNCHANGED sectorCache
       ELSE LoopFindStartNext(getFatEntry(sectorCache, call.cluster))
    /\ UNCHANGED <<fs, fat, bad, file, handle, ret, dir, listing, slots>>
\* The second loop, first half of a round: read the sectors of the cluster,
\* and stop when the read size is reached.
LoopCapped(data) == IF Len(data) > DataCap THEN Prefix(data, DataCap) ELSE data
LoopReadSectors(s) ==
    IF s.err # Nil THEN LoopReturn(s.data, s.err, s.cache)
    ELSE IF call.readSize > 0
            /\ (call.number + 1) * ClusterSize >= call.offset + call.readSize
    THEN LoopReturn(s.data, Nil, s.cache)
    ELSE /\ call' = [call EXCEPT !.pc = "next", !.skip = 0,
                                 !.data = LoopCapped(s.data)]
         /\ sectorCache' = s.cache
LoopRead ==
    /\ call.pc = "read"
    /\ LoopReadSectors(
           readSectors(sectorCache, call.data,
                       (call.cluster - 2) * SectorsPerCluster + FirstDataSector,
                       call.skip, call.offsetRest))
    /\ UNCHANGED <<fs, fat, bad, file, handle, ret, dir, listing, slots>>
\* The second loop, second half of a round: look up the FAT and stop at the
\* end of the chain, or go to the next cluster.
LoopReadNext(n) ==
    IF n.err # Nil THEN LoopReturn(call.data, n.err, n.cache)
    ELSE IF ~ReadAsNextCluster(n.entry)
    THEN LoopReturn(call.data,
                    IF Len(call.data) < file.size - call.offset
                    THEN ErrUnexpectedEOF ELSE Nil,
                    n.cache)
    ELSE /\ call' = [call EXCEPT !.pc = "read", !.cluster = n.entry,
                                 !.number = Min(call.number + 1, NumberCap)]
         /\ sectorCache' = n.cache
LoopNext ==
    /\ call.pc = "next"
    /\ LoopReadNext(getFatEntry(sectorCache, call.cluster))
    /\ UNCHANGED <<fs, fat, bad, file, handle, ret, dir, listing, slots>>
NextLoop == LoopEnter \/ LoopFindStart \/ LoopRead \/ LoopNext
SpecLoop == InitLoop /\ [][NextLoop]_vars
\* The goroutine that called readFileAt keeps running: no round waits for
\* anything but the mutex of fetch, which is free.
SpecLoopFair == SpecLoop /\ WF_vars(NextLoop)

\* The chain of the file comes back to a cluster it has left.
RECURSIVE Revisits(_, _)
Revisits(c, seen) ==
    IF c \notin Clusters THEN FALSE
    ELSE IF c \in seen THEN TRUE
    ELSE Revisits(fat[c], seen \cup {c})
Cyclic == Revisits(file.firstCluster, {})
\* The rounds return what readFileAt returns, wherever readFileAt returns.
LoopAsReadFileAt ==
    (call.pc = "done" /\ (~Cyclic \/ call.readSize > 0))
    => LET r == readFileAt(BootCache, file.firstCluster, file.size,
                           call.offset, call.readSize)
       IN  call.data = r.data /\ call.err = r.err /\ sectorCache = r.cache
\* C36: readFileAt terminates for every content of the FAT, a chain that
\* revisits a cluster included, and for every file size, offset and read size,
\* the directory read readFileAt(cluster, -1, 0, 0) among them.
C36_ReadFileAtReturns == <>(call.pc = "done")
\* C36 for the reads of a positive read size and for the chains that revisit
\* no cluster.
C36_ReturnsWhenBounded ==
    (call.readSize > 0 \/ ~Cyclic) => <>(call.pc = "done")
\* The directory read on a chain that has come back to its first cluster: the
\* second loop is in its round NumberCap and has not returned.
C36_StillReading ==
    /\ call.pc = "next" /\ Cyclic
    /\ file.size = -1 /\ call.offset = 0 /\ call.readSize = 0
    /\ call.number = NumberCap /\ Len(call.data) = DataCap


(***************************** a file read to its end **********************)
\* A caller that has opened the file "ab" and calls Read with buffers of any
\* positive length, collecting the bytes it gets until a Read returns io.EOF,
\* and calls Read up to LaterReads times more.  The file has every size its
\* chain holds; the source has no read failures.
LaterReads == 2
StreamLens == {1, 2, ClusterSize, MaxBytes + 1}
PathAb == <<97, 98>>
InitStream ==
    /\ fs = IdleFs
    /\ bad = {}
    /\ \E ch \in FileChains, size \in 0..MaxBytes :
           /\ size <= Len(ch) * ClusterSize
           /\ fat = FatWithDir(ch, FreeCluster(ch))
           /\ file = [firstCluster |-> ch[1], size |-> size]
           /\ slots = SlotsOf(RootContent(ch, size, FreeCluster(ch)),
                              FreeCluster(ch), DirContent(0))
    /\ handle = fsOpen(BootCache, PathAb).file
    /\ sectorCache = fsOpen(BootCache, PathAb).cache
    /\ call = [op |-> "read all", delivered |-> << >>, calls |-> 0,
               eof |-> FALSE, later |-> 0]
    /\ ret = NoRet
    /\ dir = << >>
    /\ listing = NoListing
\* One Read of the caller: before io.EOF the bytes it got are appended, after
\* it the call is counted.
ReadOn ==
    /\ handle.open
    /\ call.later < LaterReads
    /\ \E len \in StreamLens :
           LET r == fileRead(sectorCache, handle, len)
           IN  /\ handle' = [handle EXCEPT !.offset = r.offset]
               /\ sectorCache' = r.cache
               /\ ret' = [op |-> "Read", len |-> len, before |-> handle.offset,
                          n |-> r.n, p |-> r.p, err |-> r.err]
               /\ call' = IF call.eof
                          THEN [call EXCEPT !.later = call.later + 1]
                          ELSE [call EXCEPT !.delivered = call.delivered \o r.p,
                                            !.calls = call.calls + 1,
                                            !.eof = Is(r.err, "io.EOF")]
    /\ UNCHANGED <<fs, fat, bad, file, dir, listing, slots>>
NextStream == ReadOn
SpecStream == InitStream /\ [][NextStream]_vars
\* The caller goes on calling Read: weak fairness of ReadOn, stated with the
\* condition under which ReadOn is enabled and with what every step of
\* ReadOn does, one more call counted.
CanReadOn == handle.open /\ call.later < LaterReads
OneMoreCall == call'.calls + call'.later > call.calls + call.later
EveryStepCounts == [][OneMoreCall]_vars
SpecStreamFair == SpecStream /\ ([]<>(~CanReadOn) \/ []<><<OneMoreCall>>_vars)

TheFile == FileBytes(chainOf(file.firstCluster), 0, file.size)
\* What has been delivered is the file up to the offset of the handle, and
\* the whole file once a Read has returned io.EOF; a Read after that returns
\* (0, io.EOF).
DeliveredSoFar ==
    /\ Len(call.delivered) = handle.offset
    /\ handle.offset <= file.size
    /\ call.delivered = Prefix(TheFile, handle.offset)
    /\ call.eof => call.delivered = TheFile
    /\ call.later > 0 => (ret.n = 0 /\ ret.err = EOF /\ ret.p = << >>)
\* C37: for a regular file with a well-formed chain and a handle at offset 0,
\* Read called again and again with buffers of any positive lengths until a
\* call returns io.EOF delivers, in call order, exactly the fileSize bytes of
\* the file, each once and none past the end; the calls are finitely many,
\* and every later Read returns (0, io.EOF).
C37_ReadsDeliverTheFile == []DeliveredSoFar /\ <>(call.eof)
\* C37 witness: a file of one cluster and one byte delivered by more than two
\* Reads, the last of which returned io.EOF, and two Reads after it.
C37_Witness ==
    /\ call.eof /\ call.calls > 2 /\ call.later = LaterReads
    /\ file.size = ClusterSize + 1
    /\ call.delivered = TheFile
    /\ ret.n = 0 /\ ret.err = EOF


(***************************** the offset of a handle **********************)
OpenRegularFile == handle.open /\ ~handle.isDirectory
\* C38: in every state of an open handle on a regular file that Read, ReadAt
\* and Seek calls, successful or failing, lead to, 0 <= offset <= fileSize;
\* and ReadAt leaves the offset as it was.
C38_OffsetInFile ==
    OpenRegularFile
    => /\ 0 <= handle.offset
       /\ handle.offset <= Size(handle)
       /\ ret.op = "ReadAt" => handle.offset = ret.before
\* C38 witnesses: a Read that failed and left the offset inside the file; a
\* Seek refused for a target after the end; a ReadAt at another position than
\* the offset of the handle.
C38_Witness ==
    /\ OpenRegularFile
    /\ ret.op = "Read" /\ ret.err # Nil /\ ret.err # EOF /\ ret.n > 0
    /\ handle.offset > 0 /\ handle.offset < Size(handle)
C38_WitnessSeek ==
    /\ OpenRegularFile
    /\ ret.op = "Seek" /\ Is(ret.err, "ErrOutOfRange")
    /\ ret.off > 0 /\ handle.offset = Size(handle) /\ Size(handle) > 0
C38_WitnessReadAt ==
    /\ OpenRegularFile
    /\ ret.op = "ReadAt" /\ ret.off = ClusterSize /\ ret.n > 0
    /\ handle.offset = 1


(***************************** the bytes after the file size ***************)
\* C39: for a known file size readFileAt never returns more than
\* max(0, fileSize - offset) bytes, whether it succeeds, reports io.EOF or
\* returns an error with a prefix.
C39_AtMostTheRest ==
    (call.op = "readFileAt" /\ file.size >= 0)
    => Len(call.data) <= Max(0, file.size - call.offset)
\* C39 for the reads File.Read and File.ReadAt ask for on a source without
\* read failures: a positive read size at an offset before the file size.
C39_WhenAskedByRead ==
    (call.readSize > 0 /\ call.offset < file.size) => C39_AtMostTheRest
\* C39, its consequence: File.Read and File.ReadAt never copy more bytes into
\* the buffer of the caller than the file has from the position of the read
\* on.
C39_ReadWithinFile ==
    (handle.open /\ ~handle.isDirectory /\ ret.op \in {"Read", "ReadAt"})
    => Len(ret.p) <= Max(0, Size(handle)
                            - (IF ret.op = "Read" THEN ret.before ELSE ret.off))
\* C39_ReadWithinFile on a source without read failures.
C39_ReadWithoutFailure == bad = {} => C39_ReadWithinFile

=============================================================================
